---- MODULE Spec2Model ----
(***************************************************************************)
(* contextkit: retrieval and context-composition engine.                   *)
(*                                                                         *)
(*   SpecSchema  - schema_fp.py and schema/schema_drift.py: fingerprints,  *)
(*                 SchemaDrift, check_pack_compatibility                   *)
(*   SpecIndex   - storage/index.py and storage/faiss_store.py: the docs   *)
(*                 table, build_faiss, search                              *)
(*   Spec        - core/auto.py: ContextComposer.compose_context           *)
(***************************************************************************)
EXTENDS Integers, Sequences, FiniteSets, TLC

VARIABLES
    \* ---- schema subsystem
    layout,        \* which nesting the snapshots of this run use
    old_schema,    \* SchemaDrift.old_schema: the snapshot a pack was made under
    new_schema,    \* SchemaDrift.new_schema: the current snapshot
    edits,         \* number of changes made to the schema since old_schema
    drift,         \* result of the last SchemaDrift(old_schema, new_schema)
    history,       \* resources/schema/*/*.json in glob order
    pack_fp,       \* the pack's front matter schema_fingerprint
    compat,        \* result of the last check_pack_compatibility
    \* ---- embedding index
    disk,          \* the document files under chats/ and packs/
    docs,          \* rows of the docs table (sqlite), in rowid order
    index_file,    \* sklearn_index.pkl: one stored vector per row, or absent
    meta_file,     \* sklearn_meta.json: {"paths": [...]}, or absent
    fresh,         \* build_faiss has returned and the docs table is as it read it
    hits,          \* result of the last search
    builder,       \* a build_faiss call in progress: where it is, what it read
    reader,        \* a search call in progress: where it is, what it loaded
    \* ---- composer
    project,       \* ContextComposer.project
    search_hits,   \* find_relevant_contexts: what search returned
    candidates,    \* what find_relevant_contexts returned
    oracle,        \* rank_contexts_with_llm: what the oracle did in stage 1
    pc,            \* position inside auto_compose_context / compose_context
    max_tokens,    \* ContextComposer.max_tokens
    prompt,        \* argument of compose_context
    schema_given,  \* a current_schema was passed to compose_context
    selected_paths,\* argument of compose_context
    pos,           \* index of the pack the for loop is at
    total_tokens,  \* running total of section estimates
    context_parts, \* sections appended so far
    used_packs,    \* names of the packs appended so far
    last,          \* what the last loop iteration read and decided
    output         \* return value of compose_context

schemaVars == <<layout, old_schema, new_schema, edits, drift, history, pack_fp, compat>>
indexVars == <<disk, docs, index_file, meta_file, fresh, hits, builder, reader>>
composeVars == <<project, search_hits, candidates, oracle, pc, max_tokens, prompt, schema_given, selected_paths, pos, total_tokens,
                 context_parts, used_packs, last, output>>
vars == <<schemaVars, indexVars, composeVars>>

-----------------------------------------------------------------------------
(* Strings are sequences of one-character strings, so that case folding,   *)
(* whitespace collapsing and lexicographic order are computed.             *)

\* The characters used by the inputs, in code point order.
Alphabet ==
    <<" ", "N", "T", "a", "b", "c", "e", "l", "m", "n", "o", "p", "s", "t", "u", "y">>

Ord(c) == CHOOSE i \in 1..Len(Alphabet) : Alphabet[i] = c

\* str.lower() on one character
Lower(c) == CASE c = "N" -> "n" [] c = "T" -> "t" [] OTHER -> c

IsSpace(c) == c = " "

RECURSIVE LStrip(_)
LStrip(s) == IF s # <<>> /\ IsSpace(Head(s)) THEN LStrip(Tail(s)) ELSE s

RECURSIVE RStrip(_)
RStrip(s) ==
    IF s # <<>> /\ IsSpace(s[Len(s)]) THEN RStrip(SubSeq(s, 1, Len(s) - 1)) ELSE s

\* re.sub(r"\s+", " ", s): every run of whitespace becomes one space
RECURSIVE CollapseSpaces(_)
CollapseSpaces(s) ==
    IF s = <<>> THEN <<>>
    ELSE IF IsSpace(Head(s)) THEN <<" ">> \o CollapseSpaces(LStrip(s))
    ELSE <<Head(s)>> \o CollapseSpaces(Tail(s))

LowerStr(s) == [i \in 1..Len(s) |-> Lower(s[i])]

\* _normalize_ident: re.sub(r"\s+", " ", s.strip()).lower()
normalize_ident(s) == LowerStr(CollapseSpaces(RStrip(LStrip(s))))

\* Python's < on str: lexicographic by code point
RECURSIVE LexLess(_, _)
LexLess(a, b) ==
    IF a = <<>> THEN b # <<>>
    ELSE IF b = <<>> THEN FALSE
    ELSE IF Head(a) = Head(b) THEN LexLess(Tail(a), Tail(b))
    ELSE Ord(Head(a)) < Ord(Head(b))

\* sorted(...) of a set of distinct strings
RECURSIVE SortedSeq(_)
SortedSeq(S) ==
    IF S = {} THEN <<>>
    ELSE LET m == CHOOSE x \in S : \A y \in S \ {x} : LexLess(x, y)
         IN  <<m>> \o SortedSeq(S \ {m})

-----------------------------------------------------------------------------
(* JSON values: a string, a dict (insertion-ordered key/value pairs, keys  *)
(* distinct) or None.                                                      *)

Str(s) == [t |-> "str", v |-> s]
Dict(items) == [t |-> "dict", v |-> items]
None == [t |-> "none", v |-> <<>>]
EmptyDict == Dict(<<>>)

IsDict(x) == x.t = "dict"
IsStr(x) == x.t = "str"

\* list(d) / d.keys(): the keys in insertion order
KeyList(d) == [i \in 1..Len(d.v) |-> d.v[i][1]]
keys(d) == {d.v[i][1] : i \in 1..Len(d.v)}
HasKey(d, k) == k \in keys(d)

\* d[k]
At(d, k) == d.v[CHOOSE i \in 1..Len(d.v) : d.v[i][1] = k][2]

\* d.get(k, default)
get(d, k, default) == IF HasKey(d, k) THEN At(d, k) ELSE default

\* Python == on JSON values: dicts compare as mappings, whatever the order
RECURSIVE PyEq(_, _)
PyEq(x, y) ==
    IF x.t # y.t THEN FALSE
    ELSE IF IsDict(x)
         THEN /\ keys(x) = keys(y)
              /\ \A k \in keys(x) : PyEq(At(x, k), At(y, k))
    ELSE x.v = y.v

-----------------------------------------------------------------------------
(* schema_fp.py                                                            *)

\* norm with the keys left in insertion order (sorted() dropped)
RECURSIVE norm_unsorted(_)
norm_unsorted(obj) ==
    IF IsDict(obj)
    THEN Dict([i \in 1..Len(obj.v) |-> <<obj.v[i][1], norm_unsorted(obj.v[i][2])>>])
    ELSE IF IsStr(obj) THEN Str(normalize_ident(obj.v))
    ELSE obj

\* norm with the string branch falling through without its return: the leaf
\* becomes None
RECURSIVE norm_leaf_lost(_)
norm_leaf_lost(obj) ==
    IF IsDict(obj)
    THEN LET ks == SortedSeq(keys(obj))
         IN  Dict([i \in 1..Len(ks) |-> <<ks[i], norm_leaf_lost(At(obj, ks[i]))>>])
    ELSE None

\* fingerprint_schema_json.norm: dict keys sorted, string leaves normalised
RECURSIVE norm(_)
norm(obj) ==
    IF IsDict(obj)
    THEN LET ks == SortedSeq(keys(obj))
         IN  Dict([i \in 1..Len(ks) |-> <<ks[i], norm(At(obj, ks[i]))>>])
    ELSE IF IsStr(obj) THEN Str(normalize_ident(obj.v))
    ELSE obj

\* json.dumps(x, separators=(',',':'))
RECURSIVE json_dumps(_)
RECURSIVE DumpItems(_)
json_dumps(x) ==
    IF IsDict(x) THEN <<"{">> \o DumpItems(x.v) \o <<"}">>
    ELSE IF IsStr(x) THEN <<"\"">> \o x.v \o <<"\"">>
    ELSE <<"n", "u", "l", "l">>
DumpItems(items) ==
    IF items = <<>> THEN <<>>
    ELSE <<"\"">> \o items[1][1] \o <<"\"", ":">> \o json_dumps(items[1][2])
         \o (IF Len(items) > 1 THEN <<",">> \o DumpItems(Tail(items)) ELSE <<>>)

\* blake3(data).hexdigest(), taken as collision-free: a digest stands for the
\* bytes it was computed from
blake3(data) == [digest_of |-> data]

\* fingerprint_schema_json
fingerprint_schema_json(schema) ==
    [alg |-> "blake3", hex |-> blake3(json_dumps(norm(schema)))]

-----------------------------------------------------------------------------
(* schema/schema_drift.py: class SchemaDrift                               *)

K_tables == <<"t", "a", "b", "l", "e", "s">>
K_columns == <<"c", "o", "l", "u", "m", "n", "s">>
K_type == <<"t", "y", "p", "e">>

\* SchemaDrift.has_changes
has_changes(old, new) == fingerprint_schema_json(old) # fingerprint_schema_json(new)

\* the three groups get_table_changes fills its dict with, in that order
AddedTables(old, new) ==
    keys(get(new, K_tables, EmptyDict)) \ keys(get(old, K_tables, EmptyDict))
RemovedTables(old, new) ==
    keys(get(old, K_tables, EmptyDict)) \ keys(get(new, K_tables, EmptyDict))
ModifiedTables(old, new) ==
    {tb \in keys(get(old, K_tables, EmptyDict)) \cap keys(get(new, K_tables, EmptyDict)) :
        ~PyEq(get(At(At(old, K_tables), tb), K_columns, EmptyDict),
              get(At(At(new, K_tables), tb), K_columns, EmptyDict))}

\* SchemaDrift.get_table_changes: table -> "added" | "removed" | "modified"
get_table_changes(old, new) ==
    [tb \in AddedTables(old, new) \cup RemovedTables(old, new) \cup ModifiedTables(old, new) |->
        IF tb \in AddedTables(old, new) THEN "added"
        ELSE IF tb \in RemovedTables(old, new) THEN "removed"
        ELSE "modified"]

\* the order in which the dict of get_table_changes is iterated (insertion
\* order: added, removed, modified; inside a group the order of a Python set
\* is unspecified and is fixed here as the sorted one)
TableChangeOrder(old, new) ==
    SortedSeq(AddedTables(old, new)) \o SortedSeq(RemovedTables(old, new))
        \o SortedSeq(ModifiedTables(old, new))

OldCols(old, tb) == get(get(get(old, K_tables, EmptyDict), tb, EmptyDict), K_columns, EmptyDict)
NewCols(new, tb) == get(get(get(new, K_tables, EmptyDict), tb, EmptyDict), K_columns, EmptyDict)

TypeChangedCols(old, new, tb) ==
    {c \in keys(OldCols(old, tb)) \cap keys(NewCols(new, tb)) :
        ~PyEq(get(At(OldCols(old, tb), c), K_type, None),
              get(At(NewCols(new, tb), c), K_type, None))}

\* SchemaDrift.get_column_changes: column -> change
get_column_changes(old, new, tb) ==
    LET added == keys(NewCols(new, tb)) \ keys(OldCols(old, tb))
        removed == keys(OldCols(old, tb)) \ keys(NewCols(new, tb))
        changed == TypeChangedCols(old, new, tb)
    IN  [c \in added \cup removed \cup changed |->
            IF c \in added THEN [kind |-> "added", old |-> None, new |-> None]
            ELSE IF c \in removed THEN [kind |-> "removed", old |-> None, new |-> None]
            ELSE [kind |-> "type_changed",
                  old |-> get(At(OldCols(old, tb), c), K_type, None),
                  new |-> get(At(NewCols(new, tb), c), K_type, None)]]

ColumnChangeOrder(old, new, tb) ==
    SortedSeq(keys(NewCols(new, tb)) \ keys(OldCols(old, tb)))
        \o SortedSeq(keys(OldCols(old, tb)) \ keys(NewCols(new, tb)))
        \o SortedSeq(TypeChangedCols(old, new, tb))

\* get_compatibility_level with an added column counted as a breaking change
get_compatibility_level_added_breaks(old, new) ==
    IF ~has_changes(old, new) THEN "identical"
    ELSE IF \E tb \in DOMAIN get_table_changes(old, new) :
                get_table_changes(old, new)[tb] = "removed"
         THEN "breaking"
    ELSE IF \E tb \in keys(get(old, K_tables, EmptyDict)) :
                /\ tb \in keys(get(new, K_tables, EmptyDict))
                /\ DOMAIN get_column_changes(old, new, tb) # {}
         THEN "breaking"
    ELSE "compatible"

\* SchemaDrift.get_compatibility_level
get_compatibility_level(old, new) ==
    IF ~has_changes(old, new) THEN "identical"
    ELSE IF \E tb \in DOMAIN get_table_changes(old, new) :
                get_table_changes(old, new)[tb] = "removed"
         THEN "breaking"
    ELSE IF \E tb \in keys(get(old, K_tables, EmptyDict)) :
                /\ tb \in keys(get(new, K_tables, EmptyDict))
                /\ \E c \in DOMAIN get_column_changes(old, new, tb) :
                       get_column_changes(old, new, tb)[c].kind \in {"removed", "type_changed"}
         THEN "breaking"
    ELSE "compatible"

Note(kind, name, old, new) == [kind |-> kind, name |-> name, old |-> old, new |-> new]

\* the notes of one modified table
ColumnNotes(old, new, tb) ==
    LET ord == ColumnChangeOrder(old, new, tb)
        ch == get_column_changes(old, new, tb)
    IN  [i \in 1..Len(ord) |->
            Note(CASE ch[ord[i]].kind = "added" -> "added_column"
                   [] ch[ord[i]].kind = "removed" -> "removed_column"
                   [] OTHER -> "type_changed",
                 ord[i], ch[ord[i]].old, ch[ord[i]].new)]

RECURSIVE TableNotes(_, _, _)
TableNotes(old, new, ord) ==
    IF ord = <<>> THEN <<>>
    ELSE LET tb == Head(ord)
             change == get_table_changes(old, new)[tb]
         IN  (IF change = "added" THEN <<Note("new_table", tb, None, None)>>
              ELSE IF change = "removed" THEN <<Note("removed_table", tb, None, None)>>
              ELSE <<Note("modified_table", tb, None, None)>> \o ColumnNotes(old, new, tb))
             \o TableNotes(old, new, Tail(ord))

\* SchemaDrift.generate_migration_notes
generate_migration_notes(old, new) ==
    IF ~has_changes(old, new) THEN <<Note("info", <<>>, None, None)>>
    ELSE TableNotes(old, new, TableChangeOrder(old, new))

-----------------------------------------------------------------------------
(* schema/schema_drift.py: check_pack_compatibility                        *)

\* front.get("schema_fingerprint") of a pack that carries none
NoFingerprint == [alg |-> "", hex |-> blake3(<<>>)]

\* a file of resources/schema that json.loads cannot read
Corrupt == [t |-> "corrupt", v |-> <<>>]

\* Python truthiness of a JSON value: None, "" and {} are falsy
Falsy(x) == x.t = "none" \/ ((IsDict(x) \/ IsStr(x)) /\ x.v = <<>>)

\* the snapshot `for schema_file in schema_files` leaves in old_schema: the
\* first readable file whose fingerprint is the pack's, else None
RECURSIVE FindOldSchema(_, _)
FindOldSchema(files, fp) ==
    IF files = <<>> THEN None
    ELSE IF Head(files).t # "corrupt" /\ fingerprint_schema_json(Head(files)) = fp
         THEN Head(files)
    ELSE FindOldSchema(Tail(files), fp)

\* `if not old_schema`
OldSchemaMissing(x) == Falsy(x)

check_pack_compatibility(fp, current_schema, files) ==
    IF fp = NoFingerprint
    THEN [level |-> "unknown", notes |-> <<Note("no_fingerprint", <<>>, None, None)>>]
    ELSE IF fp = fingerprint_schema_json(current_schema)
    THEN [level |-> "identical", notes |-> <<Note("fingerprints_match", <<>>, None, None)>>]
    ELSE IF OldSchemaMissing(FindOldSchema(files, fp))
    THEN [level |-> "unknown", notes |-> <<Note("original_not_found", <<>>, None, None)>>]
    ELSE [level |-> get_compatibility_level(FindOldSchema(files, fp), current_schema),
          notes |-> generate_migration_notes(FindOldSchema(files, fp), current_schema)]

-----------------------------------------------------------------------------
(* Schema snapshots of the two nestings the program handles:               *)
(*   "introspected"   schema -> table -> column -> type, what              *)
(*                    introspect_postgres returns and save-chat stores     *)
(*   "tables_columns" {"tables": {t: {"columns": {c: {"type": ty}}}}},     *)
(*                    what SchemaDrift reads                               *)

Layouts == {"introspected", "tables_columns"}

K_public == <<"p", "u", "b">>
TableNames == {<<"t">>, <<"u">>}
ColNames == {<<"a">>, <<"b">>}
TypeStrs == {<<"n">>, <<"N">>, <<"s">>, <<"n", " ">>}
BaseType == <<"n">>

\* other spellings of an identifier: another letter case, added whitespace
Respellings(s) ==
    {r \in {[i \in 1..Len(s) |-> CASE s[i] = "t" -> "T" [] s[i] = "T" -> "t" [] OTHER -> s[i]],
            s \o <<" ">>} : r # s /\ normalize_ident(r) = normalize_ident(s)}

\* dict updates that keep the insertion order
SetKey(d, k, val) ==
    IF HasKey(d, k)
    THEN Dict([i \in 1..Len(d.v) |-> IF d.v[i][1] = k THEN <<k, val>> ELSE d.v[i]])
    ELSE Dict(Append(d.v, <<k, val>>))
DelKey(d, k) == Dict(SelectSeq(d.v, LAMBDA it : it[1] # k))
RenameKey(d, k, k2) ==
    Dict([i \in 1..Len(d.v) |-> IF d.v[i][1] = k THEN <<k2, d.v[i][2]>> ELSE d.v[i]])
SwapItems(d, i) ==
    Dict([j \in 1..Len(d.v) |-> IF j = i THEN d.v[i + 1] ELSE IF j = i + 1 THEN d.v[i] ELSE d.v[j]])

RootKey(lay) == IF lay = "tables_columns" THEN K_tables ELSE K_public
TablesOf(lay, S) == get(S, RootKey(lay), EmptyDict)
ColsOf(lay, tv) == IF lay = "tables_columns" THEN get(tv, K_columns, EmptyDict) ELSE tv
TypeOf(lay, cv) == IF lay = "tables_columns" THEN At(cv, K_type).v ELSE cv.v
MkCol(lay, ty) == IF lay = "tables_columns" THEN Dict(<< <<K_type, Str(ty)>> >>) ELSE Str(ty)
WithCols(lay, tv, C) == IF lay = "tables_columns" THEN SetKey(tv, K_columns, C) ELSE C

\* introspect_postgres builds its result from the rows of
\* information_schema.columns: a table without columns and a schema without
\* tables have no row, hence no key
WithTables(lay, S, T) ==
    IF lay = "introspected"
    THEN LET kept == Dict(SelectSeq(T.v, LAMBDA it : it[2].v # <<>>))
         IN  IF kept.v = <<>> THEN DelKey(S, K_public) ELSE SetKey(S, K_public, kept)
    ELSE SetKey(S, K_tables, T)

SetTable(lay, S, tb, tv) == WithTables(lay, S, SetKey(TablesOf(lay, S), tb, tv))
SetCols(lay, S, tb, C) ==
    SetTable(lay, S, tb, WithCols(lay, get(TablesOf(lay, S), tb, EmptyDict), C))

TablesIn(lay, S) == keys(TablesOf(lay, S))
ColsIn(lay, S, tb) == ColsOf(lay, At(TablesOf(lay, S), tb))
ColNamesIn(lay, S, tb) == keys(ColsIn(lay, S, tb))

\* a table with the columns cs, all of type BaseType, in sorted order
MkTable(lay, cs) ==
    WithCols(lay, EmptyDict,
             Dict([i \in 1..Cardinality(cs) |-> <<SortedSeq(cs)[i], MkCol(lay, BaseType)>>]))

\* the snapshots a run starts from: any set of tables, each with at least one column
BaseSchemas(lay) ==
    {LET tbs == SortedSeq({tb \in TableNames : f[tb] # {}})
     IN  WithTables(lay, EmptyDict,
                    Dict([i \in 1..Len(tbs) |-> <<tbs[i], MkTable(lay, f[tbs[i]])>>]))
       : f \in [TableNames -> SUBSET ColNames]}

-----------------------------------------------------------------------------
(* storage/index.py and storage/faiss_store.py                             *)

\* the document files that can exist, in the order rebuild_index meets them:
\* DIRS["chats"] first, then DIRS["packs"]
PathOrder == <<"chats/c.md", "packs/a.md", "packs/b.md">>
Paths == {PathOrder[i] : i \in 1..Len(PathOrder)}

\* rebuild_index: kind is the directory the file was found in
KindOf(p) == IF p = "chats/c.md" THEN "chat" ELSE "pack"

Row(p) == [path |-> p, kind |-> KindOf(p)]

\* upsert_doc without the ON CONFLICT clause: a second row for the path
upsert_doc_duplicating(rows, rec) == Append(rows, rec)

\* upsert_doc: INSERT ... ON CONFLICT(path) DO UPDATE
upsert_doc(rows, rec) ==
    IF \E i \in 1..Len(rows) : rows[i].path = rec.path
    THEN [i \in 1..Len(rows) |-> IF rows[i].path = rec.path THEN rec ELSE rows[i]]
    ELSE Append(rows, rec)

\* rebuild_index: one upsert per document file found
RECURSIVE rebuild_index(_, _, _)
rebuild_index(rows, files, order) ==
    IF order = <<>> THEN rows
    ELSE rebuild_index(IF Head(order) \in files THEN upsert_doc(rows, Row(Head(order))) ELSE rows,
                       files, Tail(order))

\* a file of the index directory
Absent == [exists |-> FALSE, data |-> <<>>]
File(data) == [exists |-> TRUE, data |-> data]

\* build_faiss: the text a row is embedded from (project | title | summary)
RowText(r) == r.path

\* embed_texts: one vector per text, the same text always giving the same vector
embed_texts(texts) == [i \in 1..Len(texts) |-> [embedding_of |-> texts[i]]]

\* build_faiss that adds the vectors to the ones already stored
build_faiss_appending(rows, index, meta) ==
    IF rows = <<>> THEN <<index, meta>>
    ELSE <<File(index.data \o embed_texts([i \in 1..Len(rows) |-> RowText(rows[i])])),
           File(meta.data \o [i \in 1..Len(rows) |-> rows[i].path])>>

\* build_faiss: the two files <<sklearn_index.pkl, sklearn_meta.json>> it leaves
build_faiss(rows, index, meta) ==
    IF rows = <<>> THEN <<index, meta>>
    ELSE <<File(embed_texts([i \in 1..Len(rows) |-> RowText(rows[i])])),
           File([i \in 1..Len(rows) |-> rows[i].path])>>

\* cosine similarities, scaled: negative, zero, and two positive values
Scores == {-1, 0, 1, 2}

\* np.argsort(similarities): the orders that sort the scores ascending (the
\* order among equal scores is not specified)
ArgSorts(sims) ==
    {o \in [1..Len(sims) -> 1..Len(sims)] :
        /\ \A i, j \in 1..Len(sims) : i # j => o[i] # o[j]
        /\ \A i \in 1..(Len(sims) - 1) : sims[o[i]] <= sims[o[i + 1]]}

Reverse(s) == [i \in 1..Len(s) |-> s[Len(s) + 1 - i]]
Take(s, n) == SubSeq(s, 1, IF n < Len(s) THEN n ELSE Len(s))

NoHits == [done |-> FALSE, k |-> 0, sims |-> <<>>, raised |-> FALSE, out |-> <<>>]

\* no build_faiss call is in progress
NoBuilder == [pc |-> "idle", rows |-> <<>>, before |-> <<Absent, Absent>>]

\* no search call is in progress
NoReader == [pc |-> "idle", index |-> Absent, meta |-> Absent, raised |-> FALSE,
             during |-> FALSE]

\* search with the `similarities[i] > 0` test left out
search_unfiltered(index, meta, sims, order, top_k) ==
    IF ~index.exists \/ ~meta.exists
    THEN [done |-> TRUE, k |-> top_k, sims |-> <<>>, raised |-> FALSE, out |-> <<>>]
    ELSE LET top_indices == Take(Reverse(order), top_k)
         IN  IF \E n \in 1..Len(top_indices) : top_indices[n] > Len(meta.data)
             THEN [done |-> TRUE, k |-> top_k, sims |-> sims, raised |-> TRUE, out |-> <<>>]
             ELSE [done |-> TRUE, k |-> top_k, sims |-> sims, raised |-> FALSE,
                   out |-> [n \in 1..Len(top_indices) |->
                              <<meta.data[top_indices[n]], sims[top_indices[n]]>>]]

\* search(q, top_k): sims are the similarities of q to the stored vectors,
\* order the result of argsort
search(index, meta, sims, order, top_k) ==
    IF ~index.exists \/ ~meta.exists
    THEN [done |-> TRUE, k |-> top_k, sims |-> <<>>, raised |-> FALSE, out |-> <<>>]
    ELSE LET top_indices == Take(Reverse(order), top_k)
             kept == SelectSeq(top_indices, LAMBDA i : sims[i] > 0)
         IN  IF \E n \in 1..Len(kept) : kept[n] > Len(meta.data)
             THEN [done |-> TRUE, k |-> top_k, sims |-> sims, raised |-> TRUE, out |-> <<>>]
             ELSE [done |-> TRUE, k |-> top_k, sims |-> sims, raised |-> FALSE,
                   out |-> [n \in 1..Len(kept) |-> <<meta.data[kept[n]], sims[kept[n]]>>]]

-----------------------------------------------------------------------------
(* core/auto.py: ContextComposer                                           *)

\* ContextComposer.__init__: self.reserved_tokens
reserved_tokens == 500

\* ContextComposer.__init__: self.available_tokens
available_tokens(mt) == mt - reserved_tokens

\* compose_context: the annotation of a pack's section header; level is the
\* result of check_pack_compatibility, "none" when it was not called
compatibility_note(level) ==
    CASE level = "breaking" -> "SCHEMA WARNING: Breaking changes detected"
      [] level = "compatible" -> "SCHEMA: Compatible with changes"
      [] OTHER -> ""

\* compose_context, the loop over artifacts[:3]: the estimates of the
\* artifact sections kept. sizes[i] is est_tokens of the section of the i-th
\* artifact, 0 when its content cannot be loaded
RECURSIVE artifact_sections(_, _, _)
artifact_sections(sizes, total, avail) ==
    IF sizes = <<>> THEN <<>>
    ELSE (IF Head(sizes) > 0 /\ 10 * (total + Head(sizes)) < 7 * avail
          THEN <<Head(sizes)>> ELSE <<>>)
         \o artifact_sections(Tail(sizes), total, avail)

RECURSIVE SumSeq(_)
SumSeq(s) == IF s = <<>> THEN 0 ELSE Head(s) + SumSeq(Tail(s))

\* the full section appended without the budget test
full_section_fits_always(total, section_tokens, avail) == TRUE

\* `if total_tokens + section_tokens > self.available_tokens` takes the else branch
full_section_fits(total, section_tokens, avail) == ~(total + section_tokens > avail)

\* the truncated variant appended without the budget test
truncated_fits_unchecked(total, truncated_tokens, avail) == TRUE

\* `if total_tokens + truncated_tokens <= self.available_tokens`
truncated_fits(total, truncated_tokens, avail) == total + truncated_tokens <= avail

\* the loop going on after a pack whose full section did not fit
loop_after_no_break(outcome) == "loop"

\* compose_context: where the loop goes after a pack: on to the next one
\* after a full section, out by `break` once a full section did not fit
loop_after(outcome) == IF outcome = "full" THEN "loop" ELSE "finish"

\* one piece of the text compose_context returns
Seg(seg, name, n, of, packs) ==
    [seg |-> seg, name |-> name, n |-> n, of |-> of, packs |-> packs, note |-> "", notes |-> <<>>]

\* "[CONTEXTKIT] No relevant context found.\n\n{prompt}"
NoRelevantContext(p) ==
    <<Seg("no_relevant_context", "", 0, 0, <<>>), Seg("prompt", p, 0, 0, <<>>)>>

\* "[CONTEXTKIT] No relevant context found{project_note}.\n\n{prompt}" of
\* auto_compose_context, project_note naming the project when one is given
NoRelevantContextIn(proj, p) ==
    <<Seg("no_relevant_context", proj, 0, 0, <<>>), Seg("prompt", p, 0, 0, <<>>)>>

\* the notice returned without the prompt
NoContextLoaded_prompt_lost(p) ==
    <<Seg("no_context_loaded", "", 0, 0, <<>>)>>

\* "[CONTEXTKIT] No context could be loaded.\n\n{prompt}"
NoContextLoaded(p) ==
    <<Seg("no_context_loaded", "", 0, 0, <<>>), Seg("prompt", p, 0, 0, <<>>)>>

\* the text assembled with the prompt in front of the context
full_context_prompt_first(parts, used, total, mt, p) ==
    <<Seg("prompt", p, 0, 0, <<>>), Seg("header", "", total, mt, used)>>
        \o [i \in 1..Len(parts) |->
              [Seg(IF parts[i].truncated THEN "truncated_section" ELSE "section",
                   parts[i].name, parts[i].tokens, 0, <<>>) EXCEPT !.note = parts[i].note]]
        \o <<Seg("end_context", "", 0, 0, <<>>)>>

\* header + "\n" + "\n".join(context_parts) + "\n\n[END CONTEXT]\n\n" + prompt
full_context(parts, used, total, mt, p) ==
    <<Seg("header", "", total, mt, used)>>
        \o [i \in 1..Len(parts) |->
              [Seg(IF parts[i].truncated THEN "truncated_section" ELSE "section",
                   parts[i].name, parts[i].tokens, 0, <<>>) EXCEPT !.note = parts[i].note]]
        \o <<Seg("end_context", "", 0, 0, <<>>), Seg("prompt", p, 0, 0, <<>>)>>

NoLast == [outcome |-> "", level |-> "none", notes |-> <<>>, note |-> "", offered |-> <<>>,
           accepted |-> <<>>, before |-> 0, section_tokens |-> 0, truncated_tokens |-> 0,
           calls |-> 0]

-----------------------------------------------------------------------------
(* core/auto.py: candidate filter and relevance selector                   *)
(* A path is the sequence of its components: str(p) is "/" followed by the *)
(* components joined by "/". A score is a cosine similarity in hundredths. *)

\* paths.py: ROOT = Path(".").resolve()
Root == <<"srv", "ck">>

\* the documents the index knows, by file name: packs written by summarize,
\* chats written by save-chat, one chat kept in a sub-folder of chats/ that
\* is called packs (rebuild_index globs "**/*.md")
DocNames == {"a.md", "b.md", "e.md", "c.md", "d.md"}

\* further packs of project p1, to fill a long list of hits
Fillers == <<"f01.md", "f02.md", "f03.md", "f04.md", "f05.md", "f06.md",
             "f07.md", "f08.md", "f09.md", "f10.md", "f11.md", "f12.md">>
FillerNames == {Fillers[i] : i \in 1..Len(Fillers)}

DirOf(name) ==
    CASE name = "c.md" -> <<"chats">>
      [] name = "d.md" -> <<"chats", "packs">>
      [] OTHER -> <<"packs">>

\* front matter project of a document, stored in docs.project by rebuild_index
ProjectOf(name) == IF name = "b.md" THEN "p2" ELSE "p1"

\* str(p) of rebuild_index
PathOf(name) == Root \o DirOf(name) \o <<name>>

\* Path(path).name
NameOf(path) == path[Len(path)]

\* rebuild_index: kind is "chat" for the files found under DIRS["chats"]
StoredKind(path) == IF path[Len(Root) + 1] = "chats" THEN "chat" ELSE "pack"

\* SELECT project FROM docs WHERE path=?: the rows found
ProjectRows(path) == <<ProjectOf(NameOf(path))>>

\* path.endswith(".md"): the names below all end in ".md", as every document
\* found by the "**/*.md" glob does
EndsWithMd(path) == NameOf(path) \in DocNames \cup FillerNames

\* `"/packs/" in path and path.endswith(".md")`
LooksLikePack(path) ==
    /\ \E i \in 1..(Len(path) - 1) : path[i] = "packs"
    /\ EndsWithMd(path)

\* ContextComposer.project is None (or empty): `if self.project` is false
NoProject == ""

\* find_relevant_contexts: pack_hits[:10]
CandidateCap == 10

\* find_relevant_contexts with a relevance threshold of 0.10 on the score
find_relevant_contexts_min_score(found, proj) ==
    LET keep(h) ==
            /\ LooksLikePack(h[1])
            /\ h[2] >= 10
            /\ ~(/\ proj # NoProject
                 /\ ProjectRows(h[1]) # <<>>
                 /\ ProjectRows(h[1])[1] # proj)
    IN  Take(SelectSeq(found, keep), CandidateCap)

\* find_relevant_contexts(prompt, top_k=15): found is what search returned
find_relevant_contexts(found, proj) ==
    LET keep(h) ==
            /\ LooksLikePack(h[1])
            /\ ~(/\ proj # NoProject
                 /\ ProjectRows(h[1]) # <<>>
                 /\ ProjectRows(h[1])[1] # proj)
    IN  Take(SelectSeq(found, keep), CandidateCap)

\* candidate_info keeping the candidates whose load_md raises
candidate_info_keeping(cands, unloadable) == cands

\* rank_contexts_with_llm: candidate_info, the candidates whose load_md succeeds
candidate_info(cands, unloadable) ==
    SelectSeq(cands, LAMBDA c : NameOf(c[1]) \notin unloadable)

\* sorted(candidates, key=score, reverse=True): stable, descending
RECURSIVE InsertDesc(_, _)
InsertDesc(sorted, c) ==
    IF sorted = <<>> THEN <<c>>
    ELSE IF Head(sorted)[2] >= c[2] THEN <<Head(sorted)>> \o InsertDesc(Tail(sorted), c)
    ELSE <<c>> \o sorted

RECURSIVE SortDesc(_)
SortDesc(info) ==
    IF info = <<>> THEN <<>>
    ELSE InsertDesc(SortDesc(SubSeq(info, 1, Len(info) - 1)), info[Len(info)])

PathsOf(info) == [i \in 1..Len(info) |-> info[i][1]]

\* _heuristic_rank_contexts: sorted_candidates[:3]
HeuristicTop == 3

\* the heuristic keeping two candidates only
heuristic_rank_contexts_top2(info) == PathsOf(Take(SortDesc(info), 2))

\* _heuristic_rank_contexts
heuristic_rank_contexts(info) == PathsOf(Take(SortDesc(info), HeuristicTop))

\* _llm_rank_contexts: candidates[:2] when the reply cannot be parsed
ParseFallbackTop == 2

\* an element of the list rank_contexts_with_llm returns: the path, or the
\* path followed by "|artifacts:" and the indices stage 2 chose
Ref(path) == [path |-> path, annotated |-> FALSE, artifacts |-> <<>>]
Annotated(path, indices) == [path |-> path, annotated |-> TRUE, artifacts |-> indices]
Refs(paths) == [i \in 1..Len(paths) |-> Ref(paths[i])]

\* what the stage-1 oracle call does: the import or the API call raises, or
\* the reply is "none", cannot be parsed as numbers, or is a list of numbers
NoReply == [kind |-> "", numbers |-> <<>>]
Reply(kind, numbers) == [kind |-> kind, numbers |-> numbers]

\* _llm_rank_contexts answering with an empty selection where it raises
llm_rank_contexts_error_as_none(info, reply) ==
    CASE reply.kind \in {"import_error", "api_error"} -> [raised |-> FALSE, paths |-> <<>>]
      [] reply.kind = "none" -> [raised |-> FALSE, paths |-> <<>>]
      [] reply.kind = "unparsable" ->
            [raised |-> FALSE, paths |-> PathsOf(Take(info, ParseFallbackTop))]
      [] OTHER ->
            LET indices == [n \in 1..Len(reply.numbers) |-> reply.numbers[n] - 1]
                valid == SelectSeq(indices, LAMBDA i : 0 <= i /\ i < Len(info))
            IN  [raised |-> FALSE, paths |-> [n \in 1..Len(valid) |-> info[valid[n] + 1][1]]]

\* _llm_rank_contexts up to stage 2: "raised", or the paths it selected
llm_rank_contexts(info, reply) ==
    CASE reply.kind \in {"import_error", "api_error"} -> [raised |-> TRUE, paths |-> <<>>]
      [] reply.kind = "none" -> [raised |-> FALSE, paths |-> <<>>]
      [] reply.kind = "unparsable" ->
            [raised |-> FALSE, paths |-> PathsOf(Take(info, ParseFallbackTop))]
      [] OTHER ->
            LET indices == [n \in 1..Len(reply.numbers) |-> reply.numbers[n] - 1]
                valid == SelectSeq(indices, LAMBDA i : 0 <= i /\ i < Len(info))
            IN  [raised |-> FALSE, paths |-> [n \in 1..Len(valid) |-> info[valid[n] + 1][1]]]

\* rank_contexts_with_llm before stage 2 annotates the paths; key: an
\* OPENAI_API_KEY is set
rank_contexts_with_llm(cands, unloadable, key, reply) ==
    LET info == candidate_info(cands, unloadable)
    IN  IF cands = <<>> \/ info = <<>> THEN <<>>
        ELSE IF key /\ ~llm_rank_contexts(info, reply).raised
        THEN llm_rank_contexts(info, reply).paths
        ELSE heuristic_rank_contexts(info)

\* the stage-1 call made again after it raised
stage_one_calls_retrying(cands, unloadable, key, reply) ==
    IF cands = <<>> \/ candidate_info(cands, unloadable) = <<>> \/ ~key THEN 0
    ELSE IF reply.kind = "import_error" THEN 0
    ELSE IF reply.kind = "api_error" THEN 2
    ELSE 1

\* rank_contexts_with_llm and _llm_rank_contexts: how often
\* client.chat.completions.create is called for stage 1. Without candidates
\* or key _llm_rank_contexts is not entered, and a failing import raises
\* before the call
stage_one_calls(cands, unloadable, key, reply) ==
    IF cands = <<>> \/ candidate_info(cands, unloadable) = <<>> \/ ~key THEN 0
    ELSE IF reply.kind = "import_error" THEN 0
    ELSE 1

\* _select_artifacts_for_contexts: how often the oracle is called for one
\* path; a pack that does not load or has no artifacts, and artifacts that
\* are not mappings, leave the loop body before the call
stage_two_calls(outcome) ==
    IF outcome \in {"load_failed", "no_artifacts", "hash_strings"} THEN 0 ELSE 1

\* stage 2 runs: the oracle answered stage 1 with numbers
StageTwoRuns(cands, unloadable, key, reply) ==
    /\ candidate_info(cands, unloadable) # <<>>
    /\ key /\ reply.kind = "numbers"

\* _select_artifacts_for_contexts, one path: the pack does not load, has no
\* artifacts, lists its artifacts as hash strings (artifact.get raises), the
\* oracle call raises, the reply is "none" or unparsable: the plain path;
\* the reply is a list of numbers: the annotated path
StageTwoOutcomes ==
    {"load_failed", "no_artifacts", "hash_strings", "call_failed", "none", "unparsable",
     "numbers"}

\* no oracle call was made and every pack file loads
NoOracle == [key |-> FALSE, reply |-> NoReply, unloadable |-> {}, calls |-> 0]

\* _select_artifacts_for_contexts answering a failure with an empty filter
select_artifacts_empty_filter(path, outcome, numbers) ==
    IF outcome = "numbers"
    THEN Annotated(path, [n \in 1..Len(numbers) |-> numbers[n] - 1])
    ELSE Annotated(path, <<>>)

select_artifacts(path, outcome, numbers) ==
    IF outcome = "numbers"
    THEN Annotated(path, [n \in 1..Len(numbers) |-> numbers[n] - 1])
    ELSE Ref(path)

-----------------------------------------------------------------------------
(* The schema subsystem as a state machine: the database (or the schema    *)
(* JSON file) changes between the snapshot a pack was stamped with and the *)
(* current one; SchemaDrift and check_pack_compatibility are run on them.  *)

MaxEdits == 2
MaxHistory == 2

NoDrift == [done |-> FALSE, old_fp |-> NoFingerprint, new_fp |-> NoFingerprint,
            level |-> "", notes |-> <<>>]
NoCompat == [done |-> FALSE, level |-> "", notes |-> <<>>]

IndexIdle ==
    /\ disk = {} /\ docs = <<>> /\ index_file = Absent /\ meta_file = Absent
    /\ fresh = FALSE /\ hits = NoHits
    /\ builder = NoBuilder /\ reader = NoReader
ComposeIdle ==
    /\ project = NoProject /\ search_hits = <<>> /\ candidates = <<>> /\ oracle = NoOracle
    /\ pc = "idle" /\ max_tokens = 0 /\ prompt = "" /\ schema_given = FALSE
    /\ selected_paths = <<>> /\ pos = 0 /\ total_tokens = 0 /\ context_parts = <<>>
    /\ used_packs = <<>> /\ last = NoLast /\ output = <<>>

InitSchema ==
    /\ layout \in Layouts
    /\ old_schema \in BaseSchemas(layout)
    /\ new_schema = old_schema
    /\ edits = 0
    /\ drift = NoDrift
    /\ history = <<>>
    /\ pack_fp = NoFingerprint
    /\ compat = NoCompat
    /\ IndexIdle
    /\ ComposeIdle

\* the current snapshot becomes S
Edited(S) ==
    /\ edits < MaxEdits
    /\ S # new_schema
    /\ new_schema' = S
    /\ edits' = edits + 1
    /\ drift' = NoDrift
    /\ compat' = NoCompat
    /\ UNCHANGED <<layout, old_schema, history, pack_fp, indexVars, composeVars>>

\* the same mapping with two neighbouring keys exchanged, at the table
\* level or inside one table
PermuteKeys ==
    \/ \E i \in 1..(Len(TablesOf(layout, new_schema).v) - 1) :
          Edited(WithTables(layout, new_schema, SwapItems(TablesOf(layout, new_schema), i)))
    \/ \E tb \in TablesIn(layout, new_schema) :
       \E i \in 1..(Len(ColsIn(layout, new_schema, tb).v) - 1) :
          Edited(SetCols(layout, new_schema, tb, SwapItems(ColsIn(layout, new_schema, tb), i)))

\* a table or a column is named in another letter case or with other whitespace
RespellKey ==
    \/ \E tb \in TablesIn(layout, new_schema) : \E r \in Respellings(tb) :
          /\ r \notin TablesIn(layout, new_schema)
          /\ Edited(WithTables(layout, new_schema, RenameKey(TablesOf(layout, new_schema), tb, r)))
    \/ \E tb \in TablesIn(layout, new_schema) :
       \E c \in ColNamesIn(layout, new_schema, tb) : \E r \in Respellings(c) :
          /\ r \notin ColNamesIn(layout, new_schema, tb)
          /\ Edited(SetCols(layout, new_schema, tb, RenameKey(ColsIn(layout, new_schema, tb), c, r)))

\* a column's declared type is replaced by a different type string
ChangeType ==
    \E tb \in TablesIn(layout, new_schema) :
    \E c \in ColNamesIn(layout, new_schema, tb) :
    \E ty \in TypeStrs \ {TypeOf(layout, At(ColsIn(layout, new_schema, tb), c))} :
        Edited(SetCols(layout, new_schema, tb,
                       SetKey(ColsIn(layout, new_schema, tb), c, MkCol(layout, ty))))

RemoveTable ==
    \E tb \in TablesIn(layout, new_schema) :
        Edited(WithTables(layout, new_schema, DelKey(TablesOf(layout, new_schema), tb)))

RemoveColumn ==
    \E tb \in TablesIn(layout, new_schema) :
    \E c \in ColNamesIn(layout, new_schema, tb) :
        Edited(SetCols(layout, new_schema, tb, DelKey(ColsIn(layout, new_schema, tb), c)))

AddTable ==
    \E tb \in TableNames \ TablesIn(layout, new_schema) :
    \E cs \in (SUBSET ColNames) \ {{}} :
        Edited(SetTable(layout, new_schema, tb, MkTable(layout, cs)))

AddColumn ==
    \E tb \in TablesIn(layout, new_schema) :
    \E c \in ColNames \ ColNamesIn(layout, new_schema, tb) :
        Edited(SetCols(layout, new_schema, tb,
                       SetKey(ColsIn(layout, new_schema, tb), c, MkCol(layout, BaseType))))

\* SchemaDrift(old_schema, new_schema): __init__, get_compatibility_level
\* and generate_migration_notes
Diff ==
    /\ ~drift.done
    /\ drift' = [done |-> TRUE,
                 old_fp |-> fingerprint_schema_json(old_schema),
                 new_fp |-> fingerprint_schema_json(new_schema),
                 level |-> get_compatibility_level(old_schema, new_schema),
                 notes |-> generate_migration_notes(old_schema, new_schema)]
    /\ UNCHANGED <<layout, old_schema, new_schema, edits, history, pack_fp, compat,
                   indexVars, composeVars>>

\* save_schema_snapshot: writes <fingerprint>.json, replacing a file of that name
save_schema_snapshot(files, schema) ==
    IF \E i \in 1..Len(files) :
          files[i].t # "corrupt" /\ fingerprint_schema_json(files[i]) = fingerprint_schema_json(schema)
    THEN [i \in 1..Len(files) |->
            IF files[i].t # "corrupt"
               /\ fingerprint_schema_json(files[i]) = fingerprint_schema_json(schema)
            THEN schema ELSE files[i]]
    ELSE Append(files, schema)

\* save-chat --schema postgres://...: the introspected snapshot is saved and
\* its fingerprint stamped on the chat (summarize copies it to the pack)
SaveChatFromDatabase ==
    /\ edits = 0 /\ pack_fp = NoFingerprint
    /\ Len(history) < MaxHistory
    /\ history' = save_schema_snapshot(history, old_schema)
    /\ pack_fp' = fingerprint_schema_json(old_schema)
    /\ compat' = NoCompat
    /\ UNCHANGED <<layout, old_schema, new_schema, edits, drift, indexVars, composeVars>>

\* save-chat --schema file.json: the fingerprint is stamped, nothing is saved
SaveChatFromJson ==
    /\ edits = 0 /\ pack_fp = NoFingerprint
    /\ pack_fp' = fingerprint_schema_json(old_schema)
    /\ compat' = NoCompat
    /\ UNCHANGED <<layout, old_schema, new_schema, edits, drift, history, indexVars, composeVars>>

\* the `schema` command: saves a snapshot of the current schema
SchemaCommand ==
    /\ edits = 0
    /\ Len(history) < MaxHistory
    /\ history' = save_schema_snapshot(history, new_schema)
    /\ history' # history
    /\ compat' = NoCompat
    /\ UNCHANGED <<layout, old_schema, new_schema, edits, drift, pack_fp, indexVars, composeVars>>

\* a file under resources/schema that does not parse
UnreadableSnapshot ==
    /\ history = <<>>
    /\ history' = <<Corrupt>>
    /\ compat' = NoCompat
    /\ UNCHANGED <<layout, old_schema, new_schema, edits, drift, pack_fp, indexVars, composeVars>>

\* check_pack_compatibility(pack, current_schema)
CheckPack ==
    /\ ~compat.done
    /\ compat' = [done |-> TRUE] @@ check_pack_compatibility(pack_fp, new_schema, history)
    /\ UNCHANGED <<layout, old_schema, new_schema, edits, drift, history, pack_fp,
                   indexVars, composeVars>>

NextSchema ==
    \/ PermuteKeys
    \/ RespellKey
    \/ ChangeType
    \/ RemoveTable
    \/ RemoveColumn
    \/ AddTable
    \/ AddColumn
    \/ Diff

SpecSchema == InitSchema /\ [][NextSchema]_vars

NextCompat ==
    \/ SaveChatFromDatabase
    \/ SaveChatFromJson
    \/ SchemaCommand
    \/ UnreadableSnapshot
    \/ AddTable
    \/ RemoveColumn
    \/ ChangeType
    \/ CheckPack

SpecCompat == InitSchema /\ [][NextCompat]_vars

-----------------------------------------------------------------------------
(* The docs table and the embedding index as a state machine               *)

MaxK == 3

SchemaIdle ==
    /\ layout = "introspected" /\ old_schema = EmptyDict /\ new_schema = EmptyDict
    /\ edits = 0 /\ drift = NoDrift /\ history = <<>> /\ pack_fp = NoFingerprint
    /\ compat = NoCompat

InitIndex ==
    /\ disk = {} /\ docs = <<>> /\ index_file = Absent /\ meta_file = Absent
    /\ fresh = FALSE /\ hits = NoHits
    /\ builder = NoBuilder /\ reader = NoReader
    /\ SchemaIdle
    /\ ComposeIdle

\* save-chat / summarize write a document file
WriteDoc ==
    \E p \in Paths \ disk :
        /\ disk' = disk \cup {p}
        /\ hits' = NoHits
        /\ UNCHANGED <<docs, index_file, meta_file, fresh, builder, reader, schemaVars, composeVars>>

\* a document file is deleted
DeleteDoc ==
    \E p \in disk :
        /\ disk' = disk \ {p}
        /\ hits' = NoHits
        /\ UNCHANGED <<docs, index_file, meta_file, fresh, builder, reader, schemaVars, composeVars>>

\* rebuild_index()
RebuildIndex ==
    /\ docs' = rebuild_index(docs, disk, PathOrder)
    /\ fresh' = (fresh /\ docs' = docs)
    /\ hits' = NoHits
    /\ UNCHANGED <<disk, index_file, meta_file, builder, reader, schemaVars, composeVars>>

\* connect() on a missing index/meta.db: sqlite creates the file and the
\* CREATE TABLE IF NOT EXISTS statements leave an empty docs table
ConnectFreshDb ==
    /\ docs # <<>>
    /\ docs' = <<>>
    /\ fresh' = FALSE
    /\ hits' = NoHits
    /\ UNCHANGED <<disk, index_file, meta_file, builder, reader, schemaVars, composeVars>>

\* build_faiss()
BuildFaiss ==
    /\ index_file' = build_faiss(docs, index_file, meta_file)[1]
    /\ meta_file' = build_faiss(docs, index_file, meta_file)[2]
    /\ fresh' = TRUE
    /\ hits' = NoHits
    /\ UNCHANGED <<disk, docs, builder, reader, schemaVars, composeVars>>

\* search(q, top_k)
Search ==
    /\ ~hits.done
    /\ \E top_k \in 1..MaxK :
       \E sims \in [1..Len(index_file.data) -> Scores] :
       \E order \in ArgSorts(sims) :
           hits' = search(index_file, meta_file, sims, order, top_k)
    /\ UNCHANGED <<disk, docs, index_file, meta_file, fresh, builder, reader, schemaVars, composeVars>>

NextIndex ==
    \/ WriteDoc
    \/ DeleteDoc
    \/ RebuildIndex
    \/ ConnectFreshDb
    \/ BuildFaiss
    \/ Search

SpecIndex == InitIndex /\ [][NextIndex]_vars

-----------------------------------------------------------------------------
(* build_faiss and search run by two processes: each file operation of     *)
(* either call is one step, the steps interleave freely. Builds follow one *)
(* another (single writer).                                                *)

\* sklearn_index.pkl is open for writing: truncated, the pickle not complete
IndexHalfWritten == builder.pc = "index_open"

\* sklearn_meta.json is open for writing: truncated, the JSON not complete
MetaHalfWritten == builder.pc = "meta_open"

BuildInProgress == builder.pc \in {"embedded", "index_open", "index_written", "meta_open"}

\* build_faiss: connect(), the SELECT, `if not rows: return`, embed_texts
BuildRead ==
    /\ builder.pc \in {"idle", "returned"}
    /\ builder' = [pc |-> IF docs = <<>> THEN "returned" ELSE "embedded",
                   rows |-> docs, before |-> <<index_file, meta_file>>]
    /\ UNCHANGED <<disk, docs, index_file, meta_file, fresh, hits, reader,
                   schemaVars, composeVars>>

\* build_faiss: open(INDEX_PATH, 'wb') creates or truncates the file
BuildOpenIndex ==
    /\ builder.pc = "embedded"
    /\ builder' = [builder EXCEPT !.pc = "index_open"]
    /\ index_file' = File(<<>>)
    /\ UNCHANGED <<disk, docs, meta_file, fresh, hits, reader, schemaVars, composeVars>>

\* build_faiss: pickle.dump(vecs, f) and the end of the with block
BuildCloseIndex ==
    /\ builder.pc = "index_open"
    /\ builder' = [builder EXCEPT !.pc = "index_written"]
    /\ index_file' = build_faiss(builder.rows, index_file, meta_file)[1]
    /\ UNCHANGED <<disk, docs, meta_file, fresh, hits, reader, schemaVars, composeVars>>

\* build_faiss: META_PATH.write_text opens the file for writing (truncated)
BuildOpenMeta ==
    /\ builder.pc = "index_written"
    /\ builder' = [builder EXCEPT !.pc = "meta_open"]
    /\ meta_file' = File(<<>>)
    /\ UNCHANGED <<disk, docs, index_file, fresh, hits, reader, schemaVars, composeVars>>

\* build_faiss: write_text writes the JSON and closes; build_faiss returns
BuildCloseMeta ==
    /\ builder.pc = "meta_open"
    /\ builder' = [builder EXCEPT !.pc = "returned"]
    /\ meta_file' = build_faiss(builder.rows, index_file, meta_file)[2]
    /\ UNCHANGED <<disk, docs, index_file, fresh, hits, reader, schemaVars, composeVars>>

\* search: `if not INDEX_PATH.exists() or not META_PATH.exists(): return []`
ReadExists ==
    /\ reader.pc = "idle"
    /\ reader' = [NoReader EXCEPT
                    !.pc = IF index_file.exists /\ meta_file.exists THEN "checked" ELSE "done",
                    !.during = BuildInProgress]
    /\ UNCHANGED <<disk, docs, index_file, meta_file, fresh, hits, builder,
                   schemaVars, composeVars>>

\* search: pickle.load(f); raises on a file that is not a complete pickle
ReadLoadIndex ==
    /\ reader.pc = "checked"
    /\ reader' = IF IndexHalfWritten
                 THEN [reader EXCEPT !.pc = "done", !.raised = TRUE, !.during = TRUE]
                 ELSE [reader EXCEPT !.pc = "index_loaded", !.index = index_file,
                                     !.during = @ \/ BuildInProgress]
    /\ UNCHANGED <<disk, docs, index_file, meta_file, fresh, hits, builder,
                   schemaVars, composeVars>>

\* search: json.loads(META_PATH.read_text()); raises on an incomplete JSON
ReadLoadMeta ==
    /\ reader.pc = "index_loaded"
    /\ reader' = IF MetaHalfWritten
                 THEN [reader EXCEPT !.pc = "done", !.raised = TRUE, !.during = TRUE]
                 ELSE [reader EXCEPT !.pc = "done", !.meta = meta_file,
                                     !.during = @ \/ BuildInProgress]
    /\ UNCHANGED <<disk, docs, index_file, meta_file, fresh, hits, builder,
                   schemaVars, composeVars>>

\* the search has returned; another one may start
ReadAgain ==
    /\ reader.pc = "done"
    /\ reader' = NoReader
    /\ UNCHANGED <<disk, docs, index_file, meta_file, fresh, hits, builder,
                   schemaVars, composeVars>>

NextRebuild ==
    \/ WriteDoc
    \/ RebuildIndex
    \/ BuildRead
    \/ BuildOpenIndex
    \/ BuildCloseIndex
    \/ BuildOpenMeta
    \/ BuildCloseMeta
    \/ ReadExists
    \/ ReadLoadIndex
    \/ ReadLoadMeta
    \/ ReadAgain

SpecRebuild == InitIndex /\ [][NextRebuild]_vars

-----------------------------------------------------------------------------
(* compose_context as a state machine: the call, one step per iteration of *)
(* `for path in selected_paths`, the return                                *)

MaxSelected == 3

\* Path(path).name of the packs that can be selected
PackNames == {"a.md", "b.md"}
Prompts == {"q"}
MaxTokensChoices == {300, 600, 1000}

\* est_tokens of a pack's section without artifacts, of its truncated
\* variant, and of the sections of its artifacts (0: content not loadable)
SectionTokens == {80, 300}
TruncatedTokens == {60, 120}
ArtifactLists == {<<>>, <<0, 30>>, <<200, 30>>, <<30, 30, 30, 30>>}

\* the numbers a stage-2 reply names
ArtifactReplies == {<<1, 3>>}

\* stage 2 annotated the first k paths of the list
AnnotateFirst(paths, k, numbers) ==
    [i \in 1..Len(paths) |->
        IF i <= k THEN select_artifacts(paths[i], "numbers", numbers)
        ELSE select_artifacts(paths[i], "none", numbers)]

\* the lists compose_context is called with: up to MaxSelected paths of
\* packs, the first few of them annotated by stage 2; a pack may come back
\* later in the list
SelectedLists ==
    {AnnotateFirst([i \in 1..Len(sel) |-> PathOf(sel[i])], k, r) :
        sel \in {f \in UNION {[1..n -> PackNames] : n \in 0..MaxSelected} :
                   \A i \in 1..(Len(f) - 1) : f[i] # f[i + 1]},
        k \in 0..MaxSelected, r \in ArtifactReplies}

\* the schema state compose_context can meet: the snapshot the packs were
\* stamped under (old), the current one (new), the snapshot history, and
\* whether the packs carry a fingerprint at all: nothing changed since the
\* packs were stamped; a column was dropped (either layout); a column was
\* added; the stamped snapshot is not in the history; the packs carry no
\* fingerprint; the current schema is the empty dict
OneColumn(lay) ==
    WithTables(lay, EmptyDict, Dict(<< <<(<<"t">>), MkTable(lay, {<<"a">>})>> >>))
TwoColumns(lay) ==
    WithTables(lay, EmptyDict, Dict(<< <<(<<"t">>), MkTable(lay, {<<"a">>, <<"b">>})>> >>))
SchemaCase(lay, old, new, hist, stamped) ==
    [layout |-> lay, old |-> old, new |-> new, history |-> hist, stamped |-> stamped]
Stamped(lay) == SchemaCase(lay, TwoColumns(lay), TwoColumns(lay), <<TwoColumns(lay)>>, TRUE)
SchemaCases ==
    {Stamped("tables_columns"),
     [Stamped("tables_columns") EXCEPT !.new = OneColumn("tables_columns")],
     [Stamped("introspected") EXCEPT !.new = OneColumn("introspected")],
     SchemaCase("tables_columns", OneColumn("tables_columns"), TwoColumns("tables_columns"),
                <<OneColumn("tables_columns")>>, TRUE),
     [Stamped("tables_columns") EXCEPT !.new = OneColumn("tables_columns"), !.history = <<>>],
     [Stamped("tables_columns") EXCEPT !.new = OneColumn("tables_columns"), !.stamped = FALSE],
     [Stamped("tables_columns") EXCEPT !.new = EmptyDict]}

\* the schema_fingerprint in the front matter of the packs
StampOf(c) == IF c.stamped THEN fingerprint_schema_json(c.old) ELSE NoFingerprint

\* check_pack_compatibility, tabulated over the stamps, current schemas and
\* histories of SchemaCases
PackCompatibility ==
    [fp \in {StampOf(c) : c \in SchemaCases},
     current \in {c.new : c \in SchemaCases},
     files \in {c.history : c \in SchemaCases} |->
        check_pack_compatibility(fp, current, files)]

\* the schema state is as case c describes it
MeetSchema(c) ==
    /\ layout' = c.layout
    /\ old_schema' = c.old
    /\ new_schema' = c.new
    /\ history' = c.history
    /\ pack_fp' = StampOf(c)
    /\ UNCHANGED <<edits, drift, compat>>

\* the current_schema argument: new_schema, or None when none is passed
CurrentSchema == IF schema_given THEN new_schema ELSE None

InitCompose ==
    /\ ComposeIdle
    /\ SchemaIdle
    /\ IndexIdle

\* what search can return: distinct documents, scores > 0 and non-increasing
ScoreValues == {5, 60, 91}
SearchTopK == 15
HitListsOver(names, maxlen) ==
    UNION {{[i \in 1..n |-> <<PathOf(nms[i]), sc[i]>>] :
              nms \in {f \in [1..n -> names] : \A i, j \in 1..n : i # j => f[i] # f[j]},
              sc \in {g \in [1..n -> ScoreValues] : \A i \in 1..(n - 1) : g[i] >= g[i + 1]}}
           : n \in 0..maxlen}

\* a long list of hits: the first n filler packs, all of one score
LongHits(n) == [i \in 1..n |-> <<PathOf(Fillers[i]), 60>>]

Projects == {NoProject, "p1", "p2"}

\* auto_compose_context(prompt, max_tokens, current_schema, project) is
\* entered and find_relevant_contexts calls search; max_tokens and
\* current_schema are first read by compose_context and are drawn there
AutoCompose(hitlists) ==
    /\ pc = "idle"
    /\ \E p \in Prompts, proj \in Projects, found \in hitlists :
          /\ Len(found) <= SearchTopK
          /\ prompt' = p
          /\ project' = proj
          /\ search_hits' = found
    /\ pc' = "find"
    /\ UNCHANGED <<candidates, oracle, max_tokens, schema_given, selected_paths, pos,
                   total_tokens, context_parts, used_packs, last, output,
                   schemaVars, indexVars>>

\* the calls explored together with compose_context
AutoComposeCall == AutoCompose(HitListsOver(PackNames \cup {"c.md"}, 2))

\* find_relevant_contexts returns; without candidates auto_compose_context
\* returns its notice
FindRelevantContexts ==
    /\ pc = "find"
    /\ candidates' = find_relevant_contexts(search_hits, project)
    /\ IF candidates' = <<>>
       THEN pc' = "done" /\ output' = NoRelevantContextIn(project, prompt)
       ELSE pc' = "rank" /\ output' = <<>>
    /\ UNCHANGED <<project, search_hits, oracle, max_tokens, prompt, schema_given,
                   selected_paths, pos, total_tokens, context_parts, used_packs, last,
                   schemaVars, indexVars>>

\* the numbers a stage-1 reply names
StageOneReplies ==
    {Reply("import_error", <<>>), Reply("api_error", <<>>), Reply("none", <<>>),
     Reply("unparsable", <<>>), Reply("numbers", <<2, 1>>),
     Reply("numbers", <<0, 1, 1>>), Reply("numbers", <<2, 9>>)}

\* rank_contexts_with_llm up to the stage-2 loop
RankContexts ==
    /\ pc = "rank"
    /\ \E key \in BOOLEAN :
       \E reply \in (IF key THEN StageOneReplies ELSE {NoReply}) :
       \E unloadable \in {u \in SUBSET {NameOf(candidates[i][1]) : i \in 1..Len(candidates)} :
                            Cardinality(u) <= 1} :
          /\ oracle' = [key |-> key, reply |-> reply, unloadable |-> unloadable,
                        calls |-> stage_one_calls(candidates, unloadable, key, reply)]
          /\ selected_paths' = Refs(rank_contexts_with_llm(candidates, unloadable, key, reply))
          /\ pc' = IF StageTwoRuns(candidates, unloadable, key, reply)
                   THEN "stage2" ELSE "selected"
    /\ pos' = 1
    /\ UNCHANGED <<project, search_hits, candidates, max_tokens, prompt, schema_given,
                   total_tokens, context_parts, used_packs, last, output,
                   schemaVars, indexVars>>

\* _select_artifacts_for_contexts: one iteration of `for path in selected_paths`
SelectArtifacts ==
    /\ pc = "stage2" /\ pos <= Len(selected_paths)
    /\ \E outcome \in StageTwoOutcomes, numbers \in ArtifactReplies :
          /\ selected_paths' = [selected_paths EXCEPT
                                  ![pos] = select_artifacts(@.path, outcome, numbers)]
          /\ last' = [NoLast EXCEPT !.outcome = outcome, !.calls = stage_two_calls(outcome)]
    /\ pos' = pos + 1
    /\ UNCHANGED <<project, search_hits, candidates, oracle, pc, max_tokens, prompt,
                   schema_given, total_tokens, context_parts, used_packs, output,
                   schemaVars, indexVars>>

\* _select_artifacts_for_contexts returns enhanced_paths
SelectArtifactsReturn ==
    /\ pc = "stage2" /\ pos > Len(selected_paths)
    /\ pc' = "selected"
    /\ last' = NoLast
    /\ UNCHANGED <<project, search_hits, candidates, oracle, max_tokens, prompt,
                   schema_given, selected_paths, pos, total_tokens, context_parts,
                   used_packs, output, schemaVars, indexVars>>

\* what compose_context does on entry
EnterCompose(sel, p) ==
    /\ IF sel = <<>>
       THEN pc' = "done" /\ output' = NoRelevantContext(p)
       ELSE pc' = "loop" /\ output' = <<>>
    /\ pos' = 1
    /\ total_tokens' = 0
    /\ context_parts' = <<>>
    /\ used_packs' = <<>>
    /\ last' = NoLast

\* auto_compose_context calls compose_context with the selection
AutoComposeSelected ==
    /\ pc = "selected"
    /\ \E mt \in MaxTokensChoices, given \in BOOLEAN :
       \E c \in (IF given THEN SchemaCases ELSE {Stamped("tables_columns")}) :
          /\ max_tokens' = mt
          /\ schema_given' = given
          /\ MeetSchema(c)
    /\ EnterCompose(selected_paths, prompt)
    /\ project' = NoProject /\ search_hits' = <<>> /\ candidates' = <<>>
    /\ oracle' = [NoOracle EXCEPT !.unloadable = oracle.unloadable]
    /\ UNCHANGED <<prompt, selected_paths, indexVars>>

\* compose_context(selected_paths, prompt, current_schema) is entered
ComposeCall ==
    /\ pc = "idle"
    /\ \E mt \in MaxTokensChoices, sel \in SelectedLists, p \in Prompts, given \in BOOLEAN :
       \E c \in (IF given THEN SchemaCases ELSE {Stamped("tables_columns")}) :
       \E unloadable \in SUBSET PackNames :
          /\ oracle' = [NoOracle EXCEPT !.unloadable = unloadable]
          /\ max_tokens' = mt
          /\ selected_paths' = sel
          /\ prompt' = p
          /\ schema_given' = given
          /\ MeetSchema(c)
          /\ EnterCompose(sel, p)
    /\ UNCHANGED <<project, search_hits, candidates, indexVars>>

\* load_md(Path(path)) raises: the pack file does not load, or the path is
\* an annotated one, which names no file
LoadFails(ref) == ref.annotated \/ NameOf(ref.path) \in oracle.unloadable

\* load_md raises: the except clause prints and continues
SkipUnloadable ==
    /\ pc = "loop" /\ pos <= Len(selected_paths)
    /\ LoadFails(selected_paths[pos])
    /\ pos' = pos + 1
    /\ last' = [NoLast EXCEPT !.outcome = "skipped", !.before = total_tokens]
    /\ UNCHANGED <<project, search_hits, candidates, oracle, pc, max_tokens, prompt,
                   schema_given, selected_paths, total_tokens,
                   context_parts, used_packs, output, schemaVars, indexVars>>

\* compose_context, `if current_schema:` and the call in its body: the
\* result of check_pack_compatibility for a pack, level "none" when the
\* call is not made
CompatibilitySeen ==
    IF Falsy(CurrentSchema) THEN [level |-> "none", notes |-> <<>>]
    ELSE PackCompatibility[pack_fp, CurrentSchema, history]

\* one iteration for a pack that loads
ComposePack ==
    /\ pc = "loop" /\ pos <= Len(selected_paths)
    /\ ~LoadFails(selected_paths[pos])
    /\ LET compatibility == CompatibilitySeen.level
           notes == CompatibilitySeen.notes
       IN
       \E offered \in ArtifactLists :
       \E body \in SectionTokens, truncated_tokens \in TruncatedTokens :
          LET avail == available_tokens(max_tokens)
              accepted == artifact_sections(Take(offered, 3), total_tokens, avail)
              section_tokens == body + SumSeq(accepted)
              name == NameOf(selected_paths[pos].path)
              seen == [outcome |-> "", level |-> compatibility, notes |-> notes,
                       note |-> compatibility_note(compatibility),
                       offered |-> offered, accepted |-> accepted, before |-> total_tokens,
                       section_tokens |-> section_tokens,
                       truncated_tokens |-> truncated_tokens, calls |-> 0]
          IN  IF full_section_fits(total_tokens, section_tokens, avail)
              THEN /\ context_parts' = Append(context_parts,
                          [name |-> name, truncated |-> FALSE, tokens |-> section_tokens,
                           note |-> compatibility_note(compatibility), at |-> pos])
                   /\ total_tokens' = total_tokens + section_tokens
                   /\ used_packs' = Append(used_packs, name)
                   /\ last' = [seen EXCEPT !.outcome = "full"]
                   /\ pos' = pos + 1
                   /\ pc' = loop_after("full")
              ELSE IF truncated_fits(total_tokens, truncated_tokens, avail)
              THEN /\ context_parts' = Append(context_parts,
                          [name |-> name, truncated |-> TRUE, tokens |-> truncated_tokens,
                           note |-> compatibility_note(compatibility), at |-> pos])
                   /\ total_tokens' = total_tokens + truncated_tokens
                   /\ used_packs' = Append(used_packs, name)
                   /\ last' = [seen EXCEPT !.outcome = "truncated"]
                   /\ pos' = pos
                   /\ pc' = loop_after("truncated")
              ELSE /\ last' = [seen EXCEPT !.outcome = "dropped"]
                   /\ pos' = pos
                   /\ pc' = loop_after("dropped")
                   /\ UNCHANGED <<context_parts, total_tokens, used_packs>>
    /\ UNCHANGED <<project, search_hits, candidates, oracle, max_tokens, prompt,
                   schema_given, selected_paths, output, schemaVars, indexVars>>

\* the loop is over (exhausted or left by break): the text is built and returned
ComposeReturn ==
    /\ \/ pc = "finish"
       \/ pc = "loop" /\ pos > Len(selected_paths)
    /\ pc' = "done"
    /\ output' = IF context_parts = <<>>
                 THEN NoContextLoaded(prompt)
                 ELSE full_context(context_parts, used_packs, total_tokens, max_tokens, prompt)
    /\ UNCHANGED <<project, search_hits, candidates, oracle, max_tokens, prompt,
                   schema_given, selected_paths, pos, total_tokens,
                   context_parts, used_packs, last, schemaVars, indexVars>>

Next ==
    \/ ComposeCall
    \/ AutoComposeCall
    \/ FindRelevantContexts
    \/ RankContexts
    \/ SelectArtifacts
    \/ SelectArtifactsReturn
    \/ AutoComposeSelected
    \/ SkipUnloadable
    \/ ComposePack
    \/ ComposeReturn

Spec == InitCompose /\ [][Next]_vars

-----------------------------------------------------------------------------
(* find_relevant_contexts and rank_contexts_with_llm over the lists of     *)
(* hits search can return                                                  *)

MaxHits == 4

\* auto_compose_context entered with any list of up to MaxHits hits, or a
\* long list of packs
SelectCall ==
    AutoCompose(HitListsOver(DocNames, MaxHits) \cup {LongHits(n) : n \in 11..12})

NextSelect ==
    \/ SelectCall
    \/ FindRelevantContexts
    \/ RankContexts
    \/ SelectArtifacts
    \/ SelectArtifactsReturn

SpecSelect == InitCompose /\ [][NextSelect]_vars

-----------------------------------------------------------------------------
(* Properties of the composer                                              *)

Headers == {i \in 1..Len(output) : output[i].seg = "header"}

\* C1 as stated: the running total never exceeds available = max_tokens - 500
\* at any point of the packing loop, and a reported total is <= max_tokens
C1_RunningTotalWithinAvailable ==
    (pc # "idle" /\ selected_paths # <<>>) =>
        /\ total_tokens <= available_tokens(max_tokens)
        /\ \A i \in Headers : output[i].n <= output[i].of

\* C1 amended: the running total is the sum of the appended sections; it is 0
\* until a section is appended and is <= available = max_tokens - 500 from
\* then on; a header reports that total, so N <= max_tokens - 500 <= max_tokens
C1_BudgetInvariant ==
    (pc # "idle" /\ selected_paths # <<>>) =>
        /\ total_tokens = SumSeq([i \in 1..Len(context_parts) |-> context_parts[i].tokens])
        /\ context_parts = <<>> => total_tokens = 0
        /\ context_parts # <<>> => total_tokens <= available_tokens(max_tokens)
        /\ \A i \in Headers :
              /\ output[i].n = total_tokens /\ output[i].of = max_tokens
              /\ output[i].n <= max_tokens - reserved_tokens
              /\ output[i].n <= max_tokens

C1_Witness ==
    /\ pc = "done" /\ Headers # {}
    /\ Len(context_parts) >= 2
    /\ last.outcome = "truncated"
    /\ total_tokens = available_tokens(max_tokens)

-----------------------------------------------------------------------------
(* Properties of the embedding index                                       *)

\* the stored vectors whose similarity to the query is positive
Positive(sims) == {i \in 1..Len(sims) : sims[i] > 0}

Min(a, b) == IF a < b THEN a ELSE b

\* C9: search returns at most k pairs, in non-increasing score order, all
\* with a score > 0: the k best of the stored documents with positive
\* similarity; without an index on disk it returns the empty list
C9_SearchTopK ==
    hits.done =>
        /\ ~hits.raised
        /\ Len(hits.out) <= hits.k
        /\ \A n \in 1..(Len(hits.out) - 1) : hits.out[n][2] >= hits.out[n + 1][2]
        /\ \A n \in 1..Len(hits.out) : hits.out[n][2] > 0
        /\ Len(hits.out) = Min(hits.k, Cardinality(Positive(hits.sims)))
        /\ \E f \in [1..Len(hits.out) -> 1..Len(hits.sims)] :
              /\ \A m, n \in 1..Len(hits.out) : m # n => f[m] # f[n]
              /\ \A n \in 1..Len(hits.out) :
                    hits.out[n] = <<meta_file.data[f[n]], hits.sims[f[n]]>>
              /\ \A i \in Positive(hits.sims) \ {f[n] : n \in 1..Len(hits.out)} :
                    \A n \in 1..Len(hits.out) : hits.sims[i] <= hits.out[n][2]
        /\ (~index_file.exists \/ ~meta_file.exists) => hits.out = <<>>

C9_Witness ==
    /\ hits.done /\ hits.k = 2
    /\ Len(hits.sims) = 3 /\ Cardinality(Positive(hits.sims)) = 3
    /\ Len(hits.out) = 2 /\ hits.out[1][2] > hits.out[2][2]

\* C10: once build_faiss has returned, the persisted index holds one vector
\* per row of the docs table and the path list names those rows in order; a
\* search after a build over zero documents returns the empty list
C10_RebuildReplacesIndex ==
    /\ fresh =>
          /\ index_file.data = embed_texts([i \in 1..Len(docs) |-> RowText(docs[i])])
          /\ meta_file.data = [i \in 1..Len(docs) |-> docs[i].path]
    /\ (fresh /\ docs = <<>> /\ hits.done) => hits.out = <<>>

\* C11: a search that runs while build_faiss runs does not raise on a
\* half-written file and observes the vectors and the path list of one and
\* the same build
C11_RebuildAtomicForReaders ==
    reader.pc = "done" =>
        /\ ~reader.raised
        /\ reader.index.data = embed_texts(reader.meta.data)

-----------------------------------------------------------------------------
(* Properties of the schema subsystem                                      *)

\* the declared type string of column c of table tb
DeclaredType(S, tb, c) == TypeOf(layout, At(ColsIn(layout, S, tb), c))

\* S with the declared type of one column replaced
Retyped(S, tb, c, ty) ==
    SetCols(layout, S, tb, SetKey(ColsIn(layout, S, tb), c, MkCol(layout, ty)))

\* every identifier (key) and string of x with case and whitespace folded
RECURSIVE FoldIdents(_)
FoldIdents(x) ==
    IF IsDict(x)
    THEN Dict([i \in 1..Len(x.v) |-> <<normalize_ident(x.v[i][1]), FoldIdents(x.v[i][2])>>])
    ELSE IF IsStr(x) THEN Str(normalize_ident(x.v))
    ELSE x

\* no two keys of one mapping fold to the same identifier
RECURSIVE NoFoldClash(_)
NoFoldClash(x) ==
    IsDict(x) =>
        /\ Cardinality({normalize_ident(x.v[i][1]) : i \in 1..Len(x.v)}) = Len(x.v)
        /\ \A i \in 1..Len(x.v) : NoFoldClash(x.v[i][2])

\* the two snapshots differ at most in the case or whitespace of identifiers
SameUpToSpelling(a, b) ==
    /\ NoFoldClash(a) /\ NoFoldClash(b)
    /\ PyEq(FoldIdents(a), FoldIdents(b))

\* C2: a snapshot whose mappings hold the same keys and values in another
\* key order, at any depth, has the same fingerprint
C2_KeyOrderInvariant ==
    (drift.done /\ PyEq(old_schema, new_schema)) => drift.old_fp = drift.new_fp

C2_Witness ==
    /\ drift.done /\ edits = MaxEdits
    /\ PyEq(old_schema, new_schema) /\ old_schema # new_schema
    /\ drift.old_fp = drift.new_fp

\* C3: snapshots that differ only in the letter case or whitespace of their
\* identifiers (keys and type strings) have the same fingerprint
C3_IdentifierFolding ==
    (drift.done /\ SameUpToSpelling(old_schema, new_schema)) => drift.old_fp = drift.new_fp

\* C4 as stated: replacing a column's declared type by any different type
\* string changes the fingerprint
C4_AnyDifferentTypeString ==
    drift.done =>
        \A tb \in TablesIn(layout, old_schema) :
        \A c \in ColNamesIn(layout, old_schema, tb) :
        \A ty \in TypeStrs \ {DeclaredType(old_schema, tb, c)} :
            new_schema = Retyped(old_schema, tb, c, ty) => drift.old_fp # drift.new_fp

\* C4 amended: replacing a column's declared type by a type string that is
\* still different once both are trimmed, whitespace-collapsed and
\* lower-cased changes the fingerprint
C4_TypeSensitivity ==
    drift.done =>
        \A tb \in TablesIn(layout, old_schema) :
        \A c \in ColNamesIn(layout, old_schema, tb) :
        \A ty \in TypeStrs :
            (/\ normalize_ident(ty) # normalize_ident(DeclaredType(old_schema, tb, c))
             /\ new_schema = Retyped(old_schema, tb, c, ty))
                => drift.old_fp # drift.new_fp

C4_Witness ==
    /\ drift.done
    /\ \E tb \in TablesIn(layout, old_schema) :
       \E c \in ColNamesIn(layout, old_schema, tb) :
       \E ty \in TypeStrs :
           /\ normalize_ident(ty) # normalize_ident(DeclaredType(old_schema, tb, c))
           /\ new_schema = Retyped(old_schema, tb, c, ty)
    /\ drift.old_fp # drift.new_fp

\* a table of old is absent from new
TableRemoved(old, new) == TablesIn(layout, old) \ TablesIn(layout, new) # {}

\* a table of both has lost a column or has a column of another declared type
ColumnRemovedOrRetyped(old, new) ==
    \E tb \in TablesIn(layout, old) \cap TablesIn(layout, new) :
    \E c \in ColNamesIn(layout, old, tb) :
        \/ c \notin ColNamesIn(layout, new, tb)
        \/ DeclaredType(old, tb, c) # DeclaredType(new, tb, c)

\* the level the classification policy gives a pair of snapshots
PolicyLevel(old, new) ==
    IF fingerprint_schema_json(old) = fingerprint_schema_json(new) THEN "identical"
    ELSE IF TableRemoved(old, new) THEN "breaking"
    ELSE IF ColumnRemovedOrRetyped(old, new) THEN "breaking"
    ELSE "compatible"

\* C5: the level of every SchemaDrift follows the precedence identical,
\* removed table, removed or retyped column, compatible; an identical drift
\* has exactly one informational note
C5_ClassificationPrecedence ==
    drift.done =>
        /\ drift.level = PolicyLevel(old_schema, new_schema)
        /\ (drift.level = "identical") = (drift.old_fp = drift.new_fp)
        /\ drift.level = "identical" =>
              (Len(drift.notes) = 1 /\ drift.notes[1].kind = "info")

\* C6: a snapshot formed by removing one table or one column is a breaking drift
C6_RemovalIsBreaking ==
    (/\ drift.done
     /\ \/ \E tb \in TablesIn(layout, old_schema) :
              new_schema = WithTables(layout, old_schema,
                                      DelKey(TablesOf(layout, old_schema), tb))
        \/ \E tb \in TablesIn(layout, old_schema) :
           \E c \in ColNamesIn(layout, old_schema, tb) :
              new_schema = SetCols(layout, old_schema, tb,
                                   DelKey(ColsIn(layout, old_schema, tb), c)))
        => drift.level = "breaking"

\* new holds every table and column of old with its declared type, and at
\* least one table or column more
OnlyAdditions(old, new) ==
    /\ TablesIn(layout, old) \subseteq TablesIn(layout, new)
    /\ \A tb \in TablesIn(layout, old) :
          /\ ColNamesIn(layout, old, tb) \subseteq ColNamesIn(layout, new, tb)
          /\ \A c \in ColNamesIn(layout, old, tb) :
                PyEq(At(ColsIn(layout, old, tb), c), At(ColsIn(layout, new, tb), c))
    /\ \/ TablesIn(layout, new) # TablesIn(layout, old)
       \/ \E tb \in TablesIn(layout, old) :
             ColNamesIn(layout, new, tb) # ColNamesIn(layout, old, tb)

\* C7: a snapshot formed only by adding tables or columns is a compatible drift
C7_AdditiveIsCompatible ==
    (drift.done /\ OnlyAdditions(old_schema, new_schema)) => drift.level = "compatible"

C7_Witness ==
    /\ drift.done /\ layout = "tables_columns"
    /\ OnlyAdditions(old_schema, new_schema)
    /\ TablesIn(layout, new_schema) # TablesIn(layout, old_schema)
    /\ \E tb \in TablesIn(layout, old_schema) :
          ColNamesIn(layout, new_schema, tb) # ColNamesIn(layout, old_schema, tb)
    /\ drift.level = "compatible"

\* the readable snapshots of the history whose fingerprint is the pack's
Matching(files, fp) ==
    {i \in 1..Len(files) : files[i].t # "corrupt" /\ fingerprint_schema_json(files[i]) = fp}

\* C8: check_pack_compatibility answers unknown without a fingerprint,
\* identical on equal fingerprints, the full diff of the matching historical
\* snapshot (an empty one included) when there is one, unknown otherwise
C8_CheckPackOrder ==
    compat.done =>
        IF pack_fp = NoFingerprint
        THEN compat.level = "unknown" /\ compat.notes[1].kind = "no_fingerprint"
        ELSE IF pack_fp = fingerprint_schema_json(new_schema)
        THEN compat.level = "identical"
        ELSE IF Matching(history, pack_fp) # {}
        THEN \A i \in Matching(history, pack_fp) :
                /\ compat.level = get_compatibility_level(history[i], new_schema)
                /\ compat.notes = generate_migration_notes(history[i], new_schema)
        ELSE compat.level = "unknown"

-----------------------------------------------------------------------------
(* Properties of the candidate filter and of the relevance selector        *)

\* s can be obtained from t by deleting elements
RECURSIVE IsSubsequence(_, _)
IsSubsequence(s, t) ==
    IF s = <<>> THEN TRUE
    ELSE IF t = <<>> THEN FALSE
    ELSE IF Head(s) = Head(t) THEN IsSubsequence(Tail(s), Tail(t))
    ELSE IsSubsequence(s, Tail(t))

\* find_relevant_contexts has returned
Filtered == pc \in {"rank", "stage2", "selected"} \/ (pc = "done" /\ candidates = <<>> /\ search_hits # <<>>)

\* C12: find_relevant_contexts returns at most 10 of the hits, in the order
\* of the hits, every one of them stored as a pack and not as a chat and,
\* when a project is given, stored with that project
C12_CandidatesArePacksOfProject ==
    Filtered =>
        /\ Len(candidates) <= CandidateCap
        /\ IsSubsequence(candidates, search_hits)
        /\ \A i \in 1..Len(candidates) :
              /\ StoredKind(candidates[i][1]) = "pack"
              /\ project # NoProject =>
                    /\ ProjectRows(candidates[i][1]) # <<>>
                    /\ ProjectRows(candidates[i][1])[1] = project

\* the candidates whose pack file loads, in the order of the candidates
Loadable == SelectSeq(candidates, LAMBDA c : NameOf(c[1]) \notin oracle.unloadable)

\* rank_contexts_with_llm has returned what stage 1 selected
Ranked == (pc = "stage2" /\ pos = 1) \/ (pc = "selected" /\ oracle.reply.kind # "numbers")

SelectedPaths == [i \in 1..Len(selected_paths) |-> selected_paths[i].path]

\* C13: without an API key rank_contexts_with_llm returns the first three
\* loadable candidates in descending score order, all of them when there are
\* fewer than three
C13_FallbackIsTopThree ==
    (Ranked /\ ~oracle.key) =>
        /\ SelectedPaths = PathsOf(Take(Loadable, 3))
        /\ \A i \in 1..Len(Loadable), j \in 1..Len(Loadable) :
              i < j => Loadable[i][2] >= Loadable[j][2]
        /\ \A i \in 1..Len(selected_paths) : ~selected_paths[i].annotated

C13_Witness ==
    /\ Ranked /\ ~oracle.key
    /\ Len(Loadable) >= 4
    /\ NameOf(candidates[1][1]) \in oracle.unloadable
    /\ Len(selected_paths) = 3
    /\ SelectedPaths = <<candidates[2][1], candidates[3][1], candidates[4][1]>>

\* three packs are indexed and scored 0.91, 0.60 and 0.05 for the prompt,
\* no project is asked for, all of them load, and no API key is set
ThreeScoredPacks ==
    /\ Ranked /\ ~oracle.key /\ oracle.unloadable = {}
    /\ Len(search_hits) = 3
    /\ <<search_hits[1][2], search_hits[2][2], search_hits[3][2]>> = <<91, 60, 5>>
    /\ \A i \in 1..3 : StoredKind(search_hits[i][1]) = "pack"
    /\ project = NoProject

\* C14 as stated: in that scenario the fallback selects exactly the two
\* highest-scoring paths, in that order
C14_SelectsExactlyTwo ==
    ThreeScoredPacks =>
        SelectedPaths = <<search_hits[1][1], search_hits[2][1]>>

\* C14: in that scenario the fallback selects all three paths, in descending
\* score order
C14_SelectsAllThree ==
    ThreeScoredPacks =>
        SelectedPaths = <<search_hits[1][1], search_hits[2][1], search_hits[3][1]>>

C14_Witness ==
    /\ ThreeScoredPacks
    /\ Len(selected_paths) = 3
    /\ selected_paths[3] = Ref(search_hits[3][1])

\* C15: whatever the stage-1 oracle call does, rank_contexts_with_llm
\* returns a list of paths of loadable candidates; when the call raises
\* (import failure, network error) the list is the heuristic's top three,
\* when the reply cannot be parsed it is the top two, and numbers that are
\* out of range are left out
C15_OracleErrorsFallBack ==
    (Ranked /\ oracle.key) =>
        /\ \A i \in 1..Len(selected_paths) :
              \E j \in 1..Len(Loadable) : selected_paths[i] = Ref(Loadable[j][1])
        /\ oracle.reply.kind \in {"import_error", "api_error"} =>
              SelectedPaths = PathsOf(Take(Loadable, 3))
        /\ oracle.reply.kind = "unparsable" =>
              SelectedPaths = PathsOf(Take(Loadable, 2))
        /\ oracle.reply.kind = "numbers" =>
              LET inrange == SelectSeq(oracle.reply.numbers,
                                       LAMBDA n : 1 <= n /\ n <= Len(Loadable))
              IN  SelectedPaths = [i \in 1..Len(inrange) |-> Loadable[inrange[i]][1]]

C15_Witness ==
    /\ Ranked /\ oracle.key
    /\ oracle.reply.kind = "api_error"
    /\ Len(Loadable) >= 4
    /\ Len(selected_paths) = 3

\* a reply naming a number beyond the candidates has been answered
C15_WitnessOutOfRange ==
    /\ Ranked /\ oracle.key
    /\ oracle.reply = Reply("numbers", <<2, 9>>)
    /\ Len(Loadable) = 3
    /\ SelectedPaths = <<Loadable[2][1]>>

-----------------------------------------------------------------------------
(* Properties of the text compose_context and auto_compose_context return  *)

\* the places of the pack sections in the output
Sections == {i \in 1..Len(output) : output[i].seg \in {"section", "truncated_section"}}

\* C16: when a pack is included the output is the header (the used packs,
\* their number, the total estimate), the sections of the included packs in
\* the order of the selected list, the end sentinel and the prompt as the
\* last piece; the included packs are a subsequence of the selected list
C16_OutputStructure ==
    (pc = "done" /\ context_parts # <<>>) =>
        LET n == Len(context_parts)
        IN  /\ Len(output) = n + 3
            /\ output[1].seg = "header"
            /\ output[1].packs = used_packs /\ Len(used_packs) = n
            /\ output[1].n = total_tokens
            /\ \A i \in 1..n :
                  /\ output[1 + i].seg \in {"section", "truncated_section"}
                  /\ output[1 + i].name = used_packs[i]
                  /\ context_parts[i].at \in 1..Len(selected_paths)
                  /\ selected_paths[context_parts[i].at].path = PathOf(used_packs[i])
            /\ \A i, j \in 1..n : i < j => context_parts[i].at < context_parts[j].at
            /\ output[n + 2].seg = "end_context"
            /\ output[n + 3].seg = "prompt" /\ output[n + 3].name = prompt

C16_Witness ==
    /\ pc = "done"
    /\ Len(selected_paths) = 3 /\ Len(context_parts) = 2
    /\ context_parts[1].at = 1 /\ context_parts[2].at = 3
    /\ Len(output) = 5
    /\ output[5].seg = "prompt"

\* C17: when no pack survives (nothing indexed or no candidate, an empty
\* selection, every selected pack unloadable or too large) the text returned
\* is a "[CONTEXTKIT] No ..." notice followed by the prompt
C17_DegradedButValid ==
    (pc = "done" /\ context_parts = <<>>) =>
        /\ Len(output) = 2
        /\ output[1].seg \in {"no_relevant_context", "no_context_loaded"}
        /\ output[2].seg = "prompt" /\ output[2].name = prompt

\* every selected pack failed to load
C17_Witness ==
    /\ pc = "done"
    /\ Len(selected_paths) = 2
    /\ \A i \in 1..2 : ~selected_paths[i].annotated /\ NameOf(selected_paths[i].path) \in oracle.unloadable
    /\ context_parts = <<>>
    /\ output[1].seg = "no_context_loaded" /\ output[2].name = prompt

\* the first selected pack loaded and did not fit
C17_WitnessNoneFits ==
    /\ pc = "done" /\ context_parts = <<>>
    /\ last.outcome = "dropped"
    /\ output[1].seg = "no_context_loaded"

\* search found nothing for a prompt asked within a project
C17_WitnessNoCandidates ==
    /\ pc = "done" /\ project = "p1" /\ selected_paths = <<>>
    /\ output = NoRelevantContextIn("p1", prompt)

\* C18: the section of an included pack carries the breaking warning iff a
\* current schema was supplied and check_pack_compatibility answers breaking
\* for the pack, the compatible notice iff it answers compatible, and no
\* marker otherwise
C18_SchemaAnnotationMapping ==
    \A i \in 1..Len(context_parts) :
        LET supplied == schema_given
            level == PackCompatibility[pack_fp, new_schema, history].level
        IN  /\ context_parts[i].note = "SCHEMA WARNING: Breaking changes detected"
                  <=> (supplied /\ level = "breaking")
            /\ context_parts[i].note = "SCHEMA: Compatible with changes"
                  <=> (supplied /\ level = "compatible")

\* the packs are stamped with a snapshot that is in the history, and the
\* current schema supplied is that snapshot without column b of table t
DroppedColumn ==
    /\ schema_given
    /\ pack_fp # NoFingerprint
    /\ old_schema = TwoColumns(layout) /\ new_schema = OneColumn(layout)
    /\ \E i \in 1..Len(history) : history[i] = old_schema

\* C19: after a column was dropped the output carries the breaking marker
\* for the pack and a note that mentions the removed column
C19_DroppedColumnReported ==
    (pc = "done" /\ DroppedColumn) =>
        \A i \in Sections :
            /\ output[i].note = "SCHEMA WARNING: Breaking changes detected"
            /\ \E n \in 1..Len(output[i].notes) :
                  /\ output[i].notes[n].kind = "removed_column"
                  /\ output[i].notes[n].name = <<"b">>

\* C20: a pack that stage 2 annotated with artifact indices is loaded and
\* included by compose_context when its file loads and the budget allows it
\* (with max_tokens = 1000 the first pack that loads is always included)
C20_AnnotatedPackIncluded ==
    (/\ pc = "done" /\ selected_paths # <<>>
     /\ selected_paths[1].annotated
     /\ NameOf(selected_paths[1].path) \notin oracle.unloadable
     /\ max_tokens = 1000) =>
        /\ context_parts # <<>>
        /\ context_parts[1].at = 1

\* the same pack, selected without an annotation, is included
PlainPackIncluded ==
    (/\ pc = "done" /\ selected_paths # <<>>
     /\ ~selected_paths[1].annotated
     /\ NameOf(selected_paths[1].path) \notin oracle.unloadable
     /\ max_tokens = 1000) =>
        /\ context_parts # <<>>
        /\ context_parts[1].at = 1

-----------------------------------------------------------------------------
(* Properties of stage 2 and of the packing loop                           *)

\* the paths stage 1 selected from the oracle's numbers
StageOnePaths ==
    LET inrange == SelectSeq(oracle.reply.numbers, LAMBDA n : 1 <= n /\ n <= Len(Loadable))
    IN  [i \in 1..Len(inrange) |-> Loadable[inrange[i]][1]]

\* C21: _select_artifacts_for_contexts keeps one entry per pack selected in
\* stage 1, in the same order, and a pack whose artifact details, oracle
\* call or reply parsing failed is kept as its plain path
C21_StageTwoDegrades ==
    (pc = "stage2" \/ (pc = "selected" /\ oracle.key /\ oracle.reply.kind = "numbers")) =>
        /\ SelectedPaths = StageOnePaths
        /\ (pc = "stage2" /\ pos > 1 /\ last.outcome # "numbers") =>
              selected_paths[pos - 1] = Ref(StageOnePaths[pos - 1])

C21_Witness ==
    /\ pc = "stage2" /\ pos = 3
    /\ last.outcome = "call_failed"
    /\ selected_paths[1].annotated
    /\ selected_paths[2] = Ref(StageOnePaths[2])

\* C22: a full section is appended only when it fits, and the loop then
\* goes on; when it does not fit the truncated variant is appended if that
\* fits; after a pack whose full section did not fit no further pack is
\* processed, whether or not a later one would have fitted
C22_GreedyFirstFit ==
    LET avail == available_tokens(max_tokens)
    IN  /\ last.outcome = "full" =>
              /\ last.before + last.section_tokens <= avail
              /\ total_tokens = last.before + last.section_tokens
              /\ pc \in {"loop", "done"}
              /\ pc = "done" => pos > Len(selected_paths)
        /\ last.outcome = "truncated" =>
              /\ last.before + last.section_tokens > avail
              /\ last.before + last.truncated_tokens <= avail
              /\ total_tokens = last.before + last.truncated_tokens
        /\ last.outcome = "dropped" =>
              /\ last.before + last.section_tokens > avail
              /\ last.before + last.truncated_tokens > avail
              /\ total_tokens = last.before
        /\ last.outcome \in {"truncated", "dropped"} =>
              /\ pc \in {"finish", "done"}
              /\ pos <= Len(selected_paths)
              /\ \A i \in 1..Len(context_parts) : context_parts[i].at <= pos

\* the loop stopped at a pack that did not fit although the next pack of
\* the list loads and a section of 80 tokens would have fitted
C22_Witness ==
    /\ pc = "done" /\ last.outcome = "dropped"
    /\ pos < Len(selected_paths)
    /\ ~LoadFails(selected_paths[pos + 1])
    /\ total_tokens + 80 <= available_tokens(max_tokens)
    /\ context_parts # <<>>

\* C23: the artifacts accepted for a pack are among its first three, and
\* together with the sections already appended they stay strictly under 70%
\* of available
C23_ArtifactsUnderSeventyPercent ==
    (last.outcome \in {"full", "truncated", "dropped"} /\ last.accepted # <<>>) =>
        /\ IsSubsequence(last.accepted, Take(last.offered, 3))
        /\ 10 * (last.before + SumSeq(last.accepted)) < 7 * available_tokens(max_tokens)

C24_WitnessStageTwo ==
    /\ pc = "stage2" /\ pos = 2 /\ Len(selected_paths) = 2
    /\ last.outcome = "call_failed" /\ last.calls = 1
    /\ ~selected_paths[1].annotated

\* C25: a candidate that does not load is left out by rank_contexts_with_llm
\* and the others are still ranked; compose_context skips a pack that does
\* not load and goes on with the packs after it; an artifact that cannot be
\* loaded is left out of its pack's section, the pack is not
C25_UnloadableSkipped ==
    /\ (Ranked /\ candidates # <<>>) =>
          /\ \A i \in 1..Len(selected_paths) :
                NameOf(selected_paths[i].path) \notin oracle.unloadable
          /\ ~oracle.key => SelectedPaths = PathsOf(Take(Loadable, 3))
    /\ last.outcome = "skipped" =>
          /\ pc \in {"loop", "done"}
          /\ LoadFails(selected_paths[pos - 1])
    /\ (pc = "done" /\ last.outcome \in {"full", "skipped"}) =>
          /\ pos = Len(selected_paths) + 1
          /\ \A i \in 1..Len(selected_paths) :
                ~LoadFails(selected_paths[i]) =>
                    \E n \in 1..Len(context_parts) : context_parts[n].at = i
    /\ last.outcome \in {"full", "truncated", "dropped"} =>
          \A n \in 1..Len(last.accepted) : last.accepted[n] > 0

\* the first of three selected packs did not load and the second is in the
\* output
C25_Witness ==
    /\ pc = "done" /\ Len(selected_paths) = 3
    /\ ~selected_paths[1].annotated /\ LoadFails(selected_paths[1])
    /\ Len(context_parts) = 1 /\ context_parts[1].at = 2
    /\ pos = 4

\* one of two candidates did not load and the other was selected
C25_WitnessRank ==
    /\ Ranked /\ Len(candidates) = 2 /\ Len(Loadable) = 1
    /\ SelectedPaths = <<Loadable[1][1]>>

\* a pack with an artifact that could not be loaded was appended in full
C25_WitnessArtifact ==
    /\ last.outcome = "full"
    /\ last.offered = <<0, 30>> /\ last.accepted = <<30>>

\* C26: a truncated section is the last section of the output, so there is
\* at most one and no pack follows it; the header names as many packs as
\* there are sections
C26_TruncatedIsLast ==
    /\ \A i \in 1..(Len(context_parts) - 1) : ~context_parts[i].truncated
    /\ (pc = "done" /\ context_parts # <<>>) =>
          /\ \A i \in Sections :
                output[i].seg = "truncated_section" => \A j \in Sections : j <= i
          /\ Cardinality({i \in Sections : output[i].seg = "truncated_section"}) <= 1
          /\ Len(output[1].packs) = Cardinality(Sections)
          /\ Cardinality(Sections) = Len(context_parts)

\* a truncated section closes the output while a pack of the selected list
\* is left unprocessed
C26_Witness ==
    /\ pc = "done" /\ Len(context_parts) = 2
    /\ context_parts[2].truncated
    /\ output[3].seg = "truncated_section" /\ output[4].seg = "end_context"
    /\ pos < Len(selected_paths)
    /\ ~LoadFails(selected_paths[pos + 1])

\* C27: whatever the stage-1 oracle replies, the paths _llm_rank_contexts
\* selects are paths of its candidates and no path is selected twice
C27_SelectionWithoutDuplicates ==
    (Ranked /\ oracle.key) =>
        /\ \A i \in 1..Len(selected_paths) :
              \E j \in 1..Len(Loadable) : selected_paths[i].path = Loadable[j][1]
        /\ \A i, j \in 1..Len(selected_paths) :
              i # j => selected_paths[i].path # selected_paths[j].path

-----------------------------------------------------------------------------
(* Properties relating the schema, the index and what is stored about them *)

NoteKinds(notes) == {notes[i].kind : i \in 1..Len(notes)}

\* C28: the level and the notes of a SchemaDrift agree: a breaking drift has
\* a removed-table, removed-column or type-changed note; a compatible drift
\* has an added-table or added-column note and none of the former; the notes
\* are never empty
C28_LevelAgreesWithNotes ==
    drift.done =>
        /\ drift.notes # <<>>
        /\ drift.level = "breaking" =>
              NoteKinds(drift.notes) \cap {"removed_table", "removed_column", "type_changed"} # {}
        /\ drift.level = "compatible" =>
              /\ NoteKinds(drift.notes) \cap {"new_table", "added_column"} # {}
              /\ NoteKinds(drift.notes) \cap {"removed_table", "removed_column", "type_changed"} = {}

\* C29: a fingerprint save-chat stamped has a snapshot with that fingerprint
\* in the schema-snapshot history, from a database URL or from a JSON file,
\* and check_pack_compatibility does not answer "unknown" for the pack
C29_StampedFingerprintHasSnapshot ==
    pack_fp # NoFingerprint =>
        /\ \E i \in 1..Len(history) :
              /\ history[i].t # "corrupt"
              /\ fingerprint_schema_json(history[i]) = pack_fp
        /\ compat.done => compat.level # "unknown"

\* rebuild_index has run since the last change on disk (running it again
\* changes no row) and build_faiss has run since the last change of the rows
IndexUpToDate == fresh /\ docs = rebuild_index(docs, disk, PathOrder)

\* C30: once rebuild_index and build_faiss have followed the last addition
\* or deletion of a document file, the docs table has exactly one row per
\* file on disk and every path search returns is a file on disk
C30_RowsMatchDisk ==
    IndexUpToDate =>
        /\ {docs[i].path : i \in 1..Len(docs)} = disk
        /\ \A i, j \in 1..Len(docs) : docs[i].path = docs[j].path => i = j
        /\ (hits.done /\ ~hits.raised) =>
              \A n \in 1..Len(hits.out) : hits.out[n][1] \in disk

====
